---------------------------- MODULE Spec2Model ----------------------------
(***************************************************************************)
(* Model of the Stork server's periodic collection engine:                 *)
(*   - kea.StatsPuller  (backend/server/apps/kea/statspuller.go):          *)
(*     NewStatsPuller, Shutdown, pullerLoop, gatherLeaseStats,             *)
(*     getLeaseStatsFromApp;                                               *)
(*   - eventcenter.eventCenter (AddEvent, Shutdown, mainLoop).             *)
(* Time is discrete.  A time.Ticker is a period plus a channel with a      *)
(* buffer of one tick; a tick that finds the buffer full is dropped.       *)
(* An unbuffered channel is a rendezvous: the send and the receive are     *)
(* one step.  A select over several ready channels takes any of them.      *)
(***************************************************************************)
EXTENDS Integers, Sequences, FiniteSets, TLC

\* ------------------------------------------------------------------ bounds
MaxInterval == 2        \* ticker periods 1..MaxInterval, in time units
MaxInvocations == 3     \* invocations whose cause is recorded (later ones still run)
MaxShutdownCalls == 2   \* calls of Shutdown made by the owner
MaxApps == 2            \* kea apps returned by GetAppsByType in one cycle
NumCallers == 2         \* goroutines that call AddEvent
MaxEvents == 3          \* events handed to the event center
NumSubscribers == 2     \* clients that open a live connection
MaxCols == 1            \* columns of a result set
MaxText == 2            \* tokens of an event text
MaxObjects == 2         \* related objects passed with an event text
MaxRows == 2            \* rows of a result set

\* A ticker channel with room for two ticks.
TickerCapTwo == 1 + 1
\* The buffer of time.Ticker.C, made by time.NewTicker (statspuller.go:29):
\* the Go runtime gives it room for one tick.
TickerCap == 1

VARIABLES
    \* --- StatsPuller
    interval,       \* the period of Ticker
    phase,          \* time elapsed since the ticker's last period boundary
    tickerStopped,  \* Ticker.Stop() has been called
    tickerC,        \* Ticker.C: the buffered ticks, each tagged with the
                    \* invocation during which it fired (0: none in flight)
    wg,             \* Wg: the WaitGroup counter
    loopPc,         \* pullerLoop: "select", "action", "returning", "exited";
                    \* "crashed": the process has ended in a panic
    inFlight,       \* invocations of gatherLeaseStats in flight
    sdPc,           \* Shutdown: "idle", "sending" (Done <- true), "waiting" (Wg.Wait)
    sdReturns,      \* calls of Shutdown that have returned
    sinceReturn,    \* time since the last invocation returned (NoReturn: none yet)
    nStarted,       \* invocations started, counted up to MaxInvocations
    curId,          \* ordinal of the invocation in flight (0: none or not recorded)
    caused,         \* caused[k]: invocations started by a tick that fired during invocation k
    lastOutcome,    \* outcome of the last invocation: "none", "ok", "err"
    errLogged,      \* an error of the action has been logged (log.Errorf)
    startsAfterStop,\* invocations started since Shutdown was called, counted up to 2
    firedIn,        \* firedIn[k]: ticks the ticker fired during invocation k, kept
                    \* or dropped, counted up to 2
    calledInFlight, \* Shutdown was called while an invocation was in flight
    \* --- gatherLeaseStats as a function of its inputs
    gDbErr,         \* GetAppsByType fails
    gApps,          \* the apps GetAppsByType returns
    gPc,            \* "ready", "done"
    gResult,        \* what gatherLeaseStats returned and did
    \* --- getLeaseStatsFromApp as a function of its inputs
    aApp,           \* the app and what its agent answers
    aPc,            \* "ready", "done", "crashed"
    aResult,        \* what getLeaseStatsFromApp returned and did
    \* --- eventCenter
    ecPc,           \* mainLoop: "select", "persist", "dispatch", "returning", "exited"
    ecCur,          \* the event mainLoop has received and is handling (0: none)
    ecWg,           \* wg: the WaitGroup counter
    ecSdPc,         \* Shutdown: "idle", "sending" (done <- true), "waiting" (wg.Wait)
    ecSdReturns,    \* calls of Shutdown that have returned
    addPc,          \* per caller of AddEvent: "idle", "sending" (events <- event)
    addEv,          \* per caller: the event it is handing over (0: none)
    nextEv,         \* events are numbered in the order AddEvent is called
    handed,         \* events in the order mainLoop received them
    persisted,      \* events dbmodel.AddEvent stored, in order
    dropped,        \* events whose persistence failed (logged, not dispatched)
    dispatched,     \* events passed to sseBroker.DispatchEvent, in order
    persisting,     \* calls of dbmodel.AddEvent in progress
    addReturned,    \* events whose AddEvent call has returned
    before,         \* per event: the events whose AddEvent had returned when
                    \* its own AddEvent was called
    sdSnapshot,     \* the events whose AddEvent had returned when Shutdown
                    \* was last called
    \* --- the broker
    subPc,          \* per subscriber: "new", "ready" (registered, waiting for
                    \* an event), "busy" (registered, writing an event to its
                    \* stream), "gone"
    received,       \* per subscriber: the events delivered to it, in order
    missed,         \* per subscriber: the events dropped for it
    regAt,          \* per subscriber: how many events had been dispatched
                    \* when it registered
    \* --- one call of a function of the server, as a function of its inputs
    cIn,            \* the arguments of the call, and the stored data it reads
    cPc,            \* "idle" (no call), "ready", "done"
    cOut,           \* what the call returned
    \* --- the setting table of the database
    settings,       \* per name: the row stored under it, if any
    sLast,          \* the last call on the settings: what was called, what
                    \* it returned, and the table before it
    \* --- StorkServer
    ssPc,           \* "none", "start" (NewStorkServer not yet called),
                    \* "restFailed" (NewStorkServer at line 107), "failed"
                    \* (NewStorkServer returned an error), "serving",
                    \* "sdStats" (Shutdown at line 128), "sdAgents" (Shutdown
                    \* at line 130), "down" (Shutdown returned)
    ssFailAt,       \* the step of NewStorkServer that failed ("none": no step)
    ssAgents,       \* Agents: "none", "up", "down"
    ssDb,           \* Db: "none", "open", "closed"
    ssHosts,        \* HostsPuller: "none", "running", "stopped"
    ssRest          \* RestAPI: "none", "up", "down"

pullerVars == <<interval, phase, tickerStopped, tickerC, wg, loopPc, inFlight, sdPc,
                sdReturns, sinceReturn, nStarted, curId, caused, lastOutcome,
                errLogged, startsAfterStop, firedIn, calledInFlight>>
gatherVars == <<gDbErr, gApps, gPc, gResult, aApp, aPc, aResult>>
ecVars == <<ecPc, ecCur, ecWg, ecSdPc, ecSdReturns, addPc, addEv, nextEv, handed,
            persisted, dropped, dispatched, persisting, addReturned, before,
            sdSnapshot, subPc, received, missed, regAt>>
callVars == <<cIn, cPc, cOut, settings, sLast>>
serverVars == <<ssPc, ssFailAt, ssAgents, ssDb, ssHosts, ssRest>>
vars == <<pullerVars, gatherVars, ecVars, callVars, serverVars>>

Min(a, b) == IF a < b THEN a ELSE b
Range(q) == {q[n] : n \in 1..Len(q)}

\* ------------------------------------------------- getLeaseStatsFromApp
NoErr == [kind |-> "nil", app |-> 0]
DbErr == [kind |-> "db", app |-> 0]

\* Names of the daemons an app may list ("ca": any daemon other than dhcp4/dhcp6).
DaemonNames == {"dhcp4", "dhcp6", "ca"}
\* What ForwardToKeaOverHTTP answers for an app: success, a transport error
\* (err != nil), or a result carrying an error (cmdsResult.Error != nil).
TransportOutcomes == {"ok", "err", "cmdErr"}

\* statspuller.go:117-124: the map of the listed daemons named dhcp4 or dhcp6.
dhcpDaemonsOf(daemons) == {d \in daemons : d = "dhcp4" \/ d = "dhcp6"}

\* found as it would be without the early return.
foundAlways(daemons) == TRUE
\* statspuller.go:118-128: found, the flag that decides the early return.
found(daemons) == dhcpDaemonsOf(daemons) # {}

\* The batch as it would be if stat-lease6-get were appended first.
buildCmdsSwapped(dhcpDaemons) ==
    (IF "dhcp4" \in dhcpDaemons
        THEN <<[command |-> "stat-lease6-get", daemons |-> dhcpDaemons]>> ELSE <<>>)
    \o (IF "dhcp4" \in dhcpDaemons
        THEN <<[command |-> "stat-lease4-get", daemons |-> dhcpDaemons]>> ELSE <<>>)

\* statspuller.go:131-143: the command batch.  Both tests read dhcpDaemons["dhcp4"].
buildCmds(dhcpDaemons) ==
    (IF "dhcp4" \in dhcpDaemons
        THEN <<[command |-> "stat-lease4-get", daemons |-> dhcpDaemons]>>
        ELSE <<>>)
    \o
    (IF "dhcp4" \in dhcpDaemons
        THEN <<[command |-> "stat-lease6-get", daemons |-> dhcpDaemons]>>
        ELSE <<>>)

\* statspuller.go:146-149: the response slots handed to ForwardToKeaOverHTTP.
responseSlots == <<"StatLease4GetResponse", "StatLease6GetResponse">>

\* statspuller.go:99-109: the response type that decodes a command's answer.
slotFor(command) ==
    IF command = "stat-lease4-get" THEN "StatLease4GetResponse"
    ELSE "StatLease6GetResponse"

\* statspuller.go:89-103: a response, as the number of columns of its result
\* set and the number of values of each row.  args = FALSE: Arguments is nil.
NilArgs == [args |-> FALSE, ncols |-> 0, rows |-> <<>>]

\* The responses with at most maxCols columns and maxRows rows; a row holds
\* one value less than, as many values as, or one value more than the columns.
ResultSets(maxCols, maxRows) ==
    {NilArgs} \cup
    UNION {{[args |-> TRUE, ncols |-> n, rows |-> r] :
                r \in UNION {[1..k -> {n - 1, n, n + 1}] : k \in 0..maxRows}}
           : n \in 1..maxCols}

\* statspuller.go:164-169: the loop over the rows from row i on.  Every value
\* of a row is logged under Columns[colIdx]; the index is out of range, and
\* the goroutine panics, at the first value beyond the columns.
RECURSIVE logRows(_, _, _)
logRows(rs, i, logged) ==
    IF i > Len(rs.rows) THEN [logged |-> logged, panicked |-> FALSE]
    ELSE IF rs.rows[i] > rs.ncols THEN [logged |-> logged, panicked |-> TRUE]
    ELSE logRows(rs, i + 1, logged \cup {i})

\* statspuller.go:160-170 (and 172-182): one response slice, of at most one
\* response; a response without arguments is passed over.
processResponses(resps) ==
    IF resps = <<>> \/ ~resps[1].args THEN [logged |-> {}, panicked |-> FALSE]
    ELSE logRows(resps[1], 1, {})

\* What the agent answers to a command of an app.
answerTo(app, command) == IF command = "stat-lease4-get" THEN app.rs4 ELSE app.rs6

\* ForwardToKeaOverHTTP (statspuller.go:149) decodes the answer to the n-th
\* command into the n-th response slot; a slot without a command stays empty.
decoded(app, cmds, n) ==
    IF n <= Len(cmds) THEN <<answerTo(app, cmds[n].command)>> ELSE <<>>

EmptyAppResult ==
    [err |-> NoErr, calls |-> <<>>, panicked |-> FALSE, logged4 |-> {}, logged6 |-> {}]

\* getLeaseStatsFromApp as it would be if the result of the transport were
\* not looked at before the responses are processed.
getLeaseStatsFromAppNoErrCheck(app) ==
    LET dhcpDaemons == dhcpDaemonsOf(app.daemons)
        cmds == buildCmds(dhcpDaemons)
        call == [app |-> app.id, cmds |-> cmds, slots |-> responseSlots]
        p4 == processResponses(decoded(app, cmds, 1))
        p6 == processResponses(decoded(app, cmds, 2))
        err == IF app.transport = "err" THEN [kind |-> "transport", app |-> app.id]
               ELSE IF app.transport = "cmdErr" THEN [kind |-> "command", app |-> app.id]
               ELSE NoErr
    IN  IF ~found(app.daemons) THEN EmptyAppResult
        ELSE IF p4.panicked
            THEN [EmptyAppResult EXCEPT !.calls = <<call>>, !.panicked = TRUE,
                                        !.logged4 = p4.logged]
        ELSE [err |-> err, calls |-> <<call>>, panicked |-> p6.panicked,
              logged4 |-> p4.logged, logged6 |-> p6.logged]

\* statspuller.go:112-185.  Returns the error, the transport calls made, the
\* rows of the two response slices that were logged, and whether it panicked.
getLeaseStatsFromApp(app) ==
    LET dhcpDaemons == dhcpDaemonsOf(app.daemons)
        cmds == buildCmds(dhcpDaemons)
        call == [app |-> app.id, cmds |-> cmds, slots |-> responseSlots]
        p4 == processResponses(decoded(app, cmds, 1))
        p6 == processResponses(decoded(app, cmds, 2))
    IN  IF ~found(app.daemons) THEN EmptyAppResult
        ELSE IF app.transport = "err"
            THEN [EmptyAppResult EXCEPT !.calls = <<call>>,
                                        !.err = [kind |-> "transport", app |-> app.id]]
        ELSE IF app.transport = "cmdErr"
            THEN [EmptyAppResult EXCEPT !.calls = <<call>>,
                                        !.err = [kind |-> "command", app |-> app.id]]
        ELSE IF p4.panicked
            THEN [EmptyAppResult EXCEPT !.calls = <<call>>, !.panicked = TRUE,
                                        !.logged4 = p4.logged]
        ELSE [err |-> NoErr, calls |-> <<call>>, panicked |-> p6.panicked,
              logged4 |-> p4.logged, logged6 |-> p6.logged]

\* ----------------------------------------------------- gatherLeaseStats
\* visited, calls and logged record what the cycle did; panicked: the cycle
\* ended in a panic instead of returning.
EmptyOutcome ==
    [cnt |-> 0, err |-> NoErr, visited |-> <<>>, calls |-> <<>>, logged |-> <<>>,
     panicked |-> FALSE]

\* What one app adds to the record of the cycle.
visit(acc, app, r) ==
    [acc EXCEPT !.visited = Append(acc.visited, app.id),
                !.calls = acc.calls \o r.calls,
                !.logged = Append(acc.logged, [r4 |-> r.logged4, r6 |-> r.logged6]),
                !.panicked = r.panicked]

\* The loop as it would be if the first failing app ended the cycle.
RECURSIVE gatherLoopAbort(_, _, _)
gatherLoopAbort(apps, i, acc) ==
    IF i > Len(apps) THEN acc
    ELSE LET r == getLeaseStatsFromApp(apps[i])
             seen == visit(acc, apps[i], r)
         IN  IF r.panicked THEN seen
             ELSE IF r.err # NoErr THEN [seen EXCEPT !.err = r.err]
             ELSE gatherLoopAbort(apps, i + 1, [seen EXCEPT !.cnt = acc.cnt + 1])

\* The loop as it would be if the error of the first failing app were the
\* one kept.
RECURSIVE gatherLoopFirstErr(_, _, _)
gatherLoopFirstErr(apps, i, acc) ==
    IF i > Len(apps) THEN acc
    ELSE LET r == getLeaseStatsFromApp(apps[i])
             seen == visit(acc, apps[i], r)
         IN  IF r.panicked THEN seen
             ELSE gatherLoopFirstErr(apps, i + 1,
                    [seen EXCEPT !.cnt = IF r.err # NoErr THEN acc.cnt ELSE acc.cnt + 1,
                                 !.err = IF r.err # NoErr /\ acc.err = NoErr
                                           THEN r.err ELSE acc.err])

\* statspuller.go:73-86: the loop over dbApps, from index i on.  A panic in
\* getLeaseStatsFromApp is not recovered: the loop ends there.
RECURSIVE gatherLoop(_, _, _)
gatherLoop(apps, i, acc) ==
    IF i > Len(apps) THEN acc
    ELSE LET r == getLeaseStatsFromApp(apps[i])
             seen == visit(acc, apps[i], r)
         IN  IF r.panicked THEN seen
             ELSE gatherLoop(apps, i + 1,
                    [seen EXCEPT !.cnt = IF r.err # NoErr THEN acc.cnt ELSE acc.cnt + 1,
                                 !.err = IF r.err # NoErr THEN r.err ELSE acc.err])

\* gatherLeaseStats as it would be if the loop were run on the apps at hand
\* although listing them failed.
gatherLeaseStatsListErrLate(dbErr, apps) ==
    IF dbErr THEN [gatherLoop(apps, 1, EmptyOutcome) EXCEPT !.cnt = 0, !.err = DbErr]
    ELSE gatherLoop(apps, 1, EmptyOutcome)

\* statspuller.go:66-87.
gatherLeaseStats(dbErr, apps) ==
    IF dbErr THEN [EmptyOutcome EXCEPT !.err = DbErr]
    ELSE gatherLoop(apps, 1, EmptyOutcome)

\* A response with one row that fits its one column, and one whose only row
\* holds a value more than the columns.
WellFormed == [args |-> TRUE, ncols |-> 1, rows |-> <<1>>]
LongRow == [args |-> TRUE, ncols |-> 1, rows |-> <<1 + 1>>]

\* The apps of a cycle: any daemons, any outcome of the transport, and an
\* answer to stat-lease4-get that is well formed or not.
AppKinds ==
    [daemons : SUBSET DaemonNames, transport : TransportOutcomes,
     rs4 : {WellFormed, LongRow}, rs6 : {WellFormed}]

\* The lists of at most n apps; an app's id is its position in the list.
AppLists(n) ==
    UNION {{[i \in 1..k |-> [id |-> i] @@ f[i]] : f \in [1..k -> AppKinds]}
           : k \in 0..n}

\* The single apps with any answers of at most MaxCols columns and MaxRows rows.
SingleApps ==
    [id : {1}, daemons : SUBSET DaemonNames, transport : TransportOutcomes,
     rs4 : ResultSets(MaxCols, MaxRows), rs6 : ResultSets(MaxCols, MaxRows)]

\* The inputs of one collection cycle run by the puller: whether listing the
\* apps fails, and at most one app of any kind.
CycleInputs == [dbErr : BOOLEAN, apps : AppLists(1)]

\* ------------------------------------------------------------ StatsPuller
NoReturn == 0 - 1

ShutdownCalled == sdPc # "idle" \/ sdReturns > 0

\* statspuller.go:24-39: the state NewStatsPuller leaves, the loop goroutine
\* started and blocked in its select.
PullerInit ==
    /\ interval \in 1..MaxInterval
    /\ phase = 0
    /\ tickerStopped = FALSE
    /\ tickerC = <<>>
    /\ wg = 1
    /\ loopPc = "select"
    /\ inFlight = 0
    /\ sdPc = "idle"
    /\ sdReturns = 0
    /\ sinceReturn = NoReturn
    /\ nStarted = 0
    /\ curId = 0
    /\ caused = [k \in 1..MaxInvocations |-> 0]
    /\ lastOutcome = "none"
    /\ errLogged = FALSE
    /\ startsAfterStop = 0
    /\ firedIn = [k \in 1..MaxInvocations |-> 0]
    /\ calledInFlight = FALSE

\* One unit of time passes.  At each period boundary a running ticker sends
\* a tick to Ticker.C without blocking: the tick is dropped when the buffer
\* is full (time.NewTicker, statspuller.go:29).
Advance ==
    LET p == (phase + 1) % interval
        fires == p = 0 /\ ~tickerStopped
    IN  /\ loopPc # "crashed"
        /\ phase' = p
        /\ tickerC' = IF fires /\ Len(tickerC) < TickerCap
                        THEN Append(tickerC, curId) ELSE tickerC
        /\ sinceReturn' = IF sinceReturn = NoReturn THEN NoReturn
                          ELSE Min(sinceReturn + 1, interval)
        /\ firedIn' = IF fires /\ curId # 0
                        THEN [firedIn EXCEPT ![curId] = Min(@ + 1, 2)] ELSE firedIn
        /\ UNCHANGED <<interval, tickerStopped, wg, loopPc, inFlight, sdPc, sdReturns,
                       nStarted, curId, caused, lastOutcome, errLogged,
                       startsAfterStop, calledInFlight, gatherVars, ecVars, callVars, serverVars>>

\* The tick case as it would be with the action started in a goroutine of
\* its own (go gatherLeaseStats()).
pullerLoopTickAsync ==
    /\ loopPc = "select"
    /\ tickerC # <<>>
    /\ tickerC' = Tail(tickerC)
    /\ loopPc' = "select"
    /\ inFlight' = inFlight + 1
    /\ nStarted' = Min(nStarted + 1, MaxInvocations)
    /\ curId' = IF nStarted < MaxInvocations THEN nStarted + 1 ELSE 0
    /\ caused' = IF Head(tickerC) # 0
                    THEN [caused EXCEPT ![Head(tickerC)] = @ + 1] ELSE caused
    /\ startsAfterStop' = IF ShutdownCalled THEN Min(startsAfterStop + 1, 2)
                          ELSE startsAfterStop
    /\ UNCHANGED <<interval, phase, tickerStopped, wg, sdPc, sdReturns, sinceReturn,
                   lastOutcome, errLogged, firedIn, calledInFlight,
                   gatherVars, ecVars, callVars, serverVars>>

\* statspuller.go:52-55: the select takes a tick from Ticker.C and the loop
\* calls gatherLeaseStats, in the loop's own goroutine.
pullerLoopTick ==
    /\ loopPc = "select"
    /\ tickerC # <<>>
    /\ tickerC' = Tail(tickerC)
    /\ loopPc' = "action"
    /\ inFlight' = inFlight + 1
    /\ nStarted' = Min(nStarted + 1, MaxInvocations)
    /\ curId' = IF nStarted < MaxInvocations THEN nStarted + 1 ELSE 0
    /\ caused' = IF Head(tickerC) # 0
                    THEN [caused EXCEPT ![Head(tickerC)] = @ + 1] ELSE caused
    /\ startsAfterStop' = IF ShutdownCalled THEN Min(startsAfterStop + 1, 2)
                          ELSE startsAfterStop
    /\ UNCHANGED <<interval, phase, tickerStopped, wg, sdPc, sdReturns, sinceReturn,
                   lastOutcome, errLogged, firedIn, calledInFlight,
                   gatherVars, ecVars, callVars, serverVars>>

\* The loop as it would be if an error of the action ended it.
afterActionStopOnError(failed) == IF failed THEN "returning" ELSE "select"
\* statspuller.go:55-58: where the loop goes when gatherLeaseStats has
\* returned; an error is logged and the loop goes round again.
afterAction(failed) == "select"

\* statspuller.go:55-58: gatherLeaseStats returns to the loop, which logs the
\* error.  A panic of the action is recovered nowhere: it ends the process,
\* and with it the loop, the ticker and the callers of Shutdown.
pullerLoopActionReturn ==
    /\ inFlight > 0
    /\ loopPc # "crashed"
    /\ \E in \in CycleInputs :
        LET r == gatherLeaseStats(in.dbErr, in.apps)
            failed == r.err # NoErr
        IN  IF r.panicked
                THEN /\ loopPc' = "crashed"
                     /\ UNCHANGED <<lastOutcome, errLogged, inFlight, curId, sinceReturn>>
                ELSE /\ lastOutcome' = IF failed THEN "err" ELSE "ok"
                     /\ errLogged' = (errLogged \/ failed)
                     /\ loopPc' = IF loopPc = "action" THEN afterAction(failed)
                                   ELSE loopPc
                     /\ inFlight' = inFlight - 1
                     /\ curId' = 0
                     /\ sinceReturn' = 0
    /\ UNCHANGED <<interval, phase, tickerStopped, tickerC, wg, sdPc, sdReturns,
                   nStarted, caused, startsAfterStop, firedIn, calledInFlight,
                   gatherVars, ecVars, callVars, serverVars>>

\* The receive from Done as it would be if a value sent when the loop has
\* gone were taken all the same.
pullerLoopDoneNoReceiver ==
    /\ loopPc \in {"select", "exited"}
    /\ sdPc = "sending"
    /\ loopPc' = IF loopPc = "select" THEN "returning" ELSE loopPc
    /\ sdPc' = "waiting"
    /\ UNCHANGED <<interval, phase, tickerStopped, tickerC, wg, inFlight, sdReturns,
                   sinceReturn, nStarted, curId, caused, lastOutcome, errLogged,
                   startsAfterStop, firedIn, calledInFlight,
                   gatherVars, ecVars, callVars, serverVars>>

\* statspuller.go:60-61 with 44: the select takes the value Shutdown sends on
\* the unbuffered Done; the send completes in the same step.
pullerLoopDone ==
    /\ loopPc = "select"
    /\ sdPc = "sending"
    /\ loopPc' = "returning"
    /\ sdPc' = "waiting"
    /\ UNCHANGED <<interval, phase, tickerStopped, tickerC, wg, inFlight, sdReturns,
                   sinceReturn, nStarted, curId, caused, lastOutcome, errLogged,
                   startsAfterStop, firedIn, calledInFlight,
                   gatherVars, ecVars, callVars, serverVars>>

\* statspuller.go:50: the deferred Wg.Done() as the goroutine ends.
pullerLoopExit ==
    /\ loopPc = "returning"
    /\ loopPc' = "exited"
    /\ wg' = wg - 1
    /\ UNCHANGED <<interval, phase, tickerStopped, tickerC, inFlight, sdPc, sdReturns,
                   sinceReturn, nStarted, curId, caused, lastOutcome, errLogged,
                   startsAfterStop, firedIn, calledInFlight,
                   gatherVars, ecVars, callVars, serverVars>>

\* Shutdown as it would be without Ticker.Stop().
ShutdownNoStop ==
    /\ sdPc = "idle"
    /\ loopPc # "crashed"
    /\ sdReturns < MaxShutdownCalls
    /\ sdPc' = "sending"
    /\ calledInFlight' = (calledInFlight \/ inFlight > 0)
    /\ UNCHANGED <<interval, phase, tickerStopped, tickerC, wg, loopPc, inFlight,
                   sdReturns, sinceReturn, nStarted, curId, caused, lastOutcome,
                   errLogged, startsAfterStop, firedIn, gatherVars, ecVars, callVars, serverVars>>

\* statspuller.go:41-44: Shutdown stops the ticker and offers a value on Done.
Shutdown ==
    /\ sdPc = "idle"
    /\ loopPc # "crashed"
    /\ sdReturns < MaxShutdownCalls
    /\ tickerStopped' = TRUE
    /\ sdPc' = "sending"
    /\ calledInFlight' = (calledInFlight \/ inFlight > 0)
    /\ UNCHANGED <<interval, phase, tickerC, wg, loopPc, inFlight, sdReturns,
                   sinceReturn, nStarted, curId, caused, lastOutcome, errLogged,
                   startsAfterStop, firedIn, gatherVars, ecVars, callVars, serverVars>>

\* Shutdown as it would be without Wg.Wait().
ShutdownNoWait ==
    /\ sdPc = "waiting"
    /\ sdPc' = "idle"
    /\ sdReturns' = sdReturns + 1
    /\ UNCHANGED <<interval, phase, tickerStopped, tickerC, wg, loopPc, inFlight,
                   sinceReturn, nStarted, curId, caused, lastOutcome, errLogged,
                   startsAfterStop, firedIn, calledInFlight,
                   gatherVars, ecVars, callVars, serverVars>>

\* statspuller.go:45-47: Wg.Wait() returns when the counter is zero, and
\* Shutdown returns.
ShutdownReturn ==
    /\ sdPc = "waiting"
    /\ wg = 0
    /\ sdPc' = "idle"
    /\ sdReturns' = sdReturns + 1
    /\ UNCHANGED <<interval, phase, tickerStopped, tickerC, wg, loopPc, inFlight,
                   sinceReturn, nStarted, curId, caused, lastOutcome, errLogged,
                   startsAfterStop, firedIn, calledInFlight,
                   gatherVars, ecVars, callVars, serverVars>>

\* No StatsPuller has been constructed.
PullerNone ==
    /\ interval = 1
    /\ phase = 0
    /\ tickerStopped = TRUE
    /\ tickerC = <<>>
    /\ wg = 0
    /\ loopPc = "none"
    /\ inFlight = 0
    /\ sdPc = "none"
    /\ sdReturns = 0
    /\ sinceReturn = NoReturn
    /\ nStarted = 0
    /\ curId = 0
    /\ caused = [k \in 1..MaxInvocations |-> 0]
    /\ lastOutcome = "none"
    /\ errLogged = FALSE
    /\ startsAfterStop = 0
    /\ firedIn = [k \in 1..MaxInvocations |-> 0]
    /\ calledInFlight = FALSE

PullerNext ==
    \/ Advance
    \/ pullerLoopTick
    \/ pullerLoopActionReturn
    \/ pullerLoopDone
    \/ pullerLoopExit
    \/ Shutdown
    \/ ShutdownReturn

\* ------------------------------------------- gatherLeaseStats, one cycle
GatherIdle ==
    /\ gDbErr = FALSE
    /\ gApps = <<>>
    /\ gPc = "idle"
    /\ gResult = EmptyOutcome
    /\ aApp = [id |-> 1, daemons |-> {}, transport |-> "ok", rs4 |-> NilArgs,
               rs6 |-> NilArgs]
    /\ aPc = "idle"
    /\ aResult = EmptyAppResult

GatherInit ==
    /\ gDbErr \in BOOLEAN
    /\ gApps \in AppLists(MaxApps)
    /\ gPc = "ready"
    /\ gResult = EmptyOutcome
    /\ aApp = [id |-> 1, daemons |-> {}, transport |-> "ok", rs4 |-> NilArgs,
               rs6 |-> NilArgs]
    /\ aPc = "idle"
    /\ aResult = EmptyAppResult

\* One call of getLeaseStatsFromApp, on any single app.
AppInit ==
    /\ gDbErr = FALSE
    /\ gApps = <<>>
    /\ gPc = "idle"
    /\ gResult = EmptyOutcome
    /\ aApp \in SingleApps
    /\ aPc = "ready"
    /\ aResult = EmptyAppResult

\* One call of getLeaseStatsFromApp on the drawn app (statspuller.go:112-185).
RunApp ==
    /\ aPc = "ready"
    /\ aResult' = getLeaseStatsFromApp(aApp)
    /\ aPc' = IF aResult'.panicked THEN "crashed" ELSE "done"
    /\ UNCHANGED <<gDbErr, gApps, gPc, gResult, aApp, pullerVars, ecVars, callVars, serverVars>>

\* One call of gatherLeaseStats on the drawn inputs (statspuller.go:66-87).
RunGather ==
    /\ gPc = "ready"
    /\ gResult' = gatherLeaseStats(gDbErr, gApps)
    /\ gPc' = IF gResult'.panicked THEN "crashed" ELSE "done"
    /\ UNCHANGED <<gDbErr, gApps, aApp, aPc, aResult, pullerVars, ecVars, callVars, serverVars>>

\* ------------------------------------------------------------ eventCenter
Callers == 1..NumCallers
Subscribers == 1..NumSubscribers
brokerVars == <<subPc, received, missed, regAt>>

\* part_005:38-51: the state NewEventCenter leaves, mainLoop started and
\* blocked in its select.
ECInit ==
    /\ ecPc = "select"
    /\ ecCur = 0
    /\ ecWg = 1
    /\ ecSdPc = "idle"
    /\ ecSdReturns = 0
    /\ addPc = [c \in Callers |-> "idle"]
    /\ addEv = [c \in Callers |-> 0]
    /\ nextEv = 1
    /\ handed = <<>>
    /\ persisted = <<>>
    /\ dropped = {}
    /\ dispatched = <<>>
    /\ persisting = 0
    /\ addReturned = {}
    /\ before = [e \in 1..MaxEvents |-> {}]
    /\ sdSnapshot = {}
    /\ subPc = [s \in Subscribers |-> "new"]
    /\ received = [s \in Subscribers |-> <<>>]
    /\ missed = [s \in Subscribers |-> {}]
    /\ regAt = [s \in Subscribers |-> 0]

\* No eventCenter has been constructed.
ECNone ==
    /\ ecPc = "none"
    /\ ecCur = 0
    /\ ecWg = 0
    /\ ecSdPc = "none"
    /\ ecSdReturns = 0
    /\ addPc = [c \in Callers |-> "none"]
    /\ addEv = [c \in Callers |-> 0]
    /\ nextEv = 1
    /\ handed = <<>>
    /\ persisted = <<>>
    /\ dropped = {}
    /\ dispatched = <<>>
    /\ persisting = 0
    /\ addReturned = {}
    /\ before = [e \in 1..MaxEvents |-> {}]
    /\ sdSnapshot = {}
    /\ subPc = [s \in Subscribers |-> "new"]
    /\ received = [s \in Subscribers |-> <<>>]
    /\ missed = [s \in Subscribers |-> {}]
    /\ regAt = [s \in Subscribers |-> 0]

\* The fan-out as it would be if the send to a subscriber that is still
\* writing were waited for.
DispatchEventBlocking(event) ==
    /\ \A s \in Subscribers : subPc[s] # "busy"
    /\ subPc' = [s \in Subscribers |-> IF subPc[s] = "ready" THEN "busy" ELSE subPc[s]]
    /\ received' = [s \in Subscribers |->
                      IF subPc[s] = "ready" THEN Append(received[s], event)
                      ELSE received[s]]
    /\ UNCHANGED <<missed, regAt>>

\* The broker's fan-out of one event (called at part_005:135): a registered
\* subscriber that is waiting takes the event; for one that is still writing
\* an earlier event the send is not waited for and the event is dropped, for
\* that subscriber only.
DispatchEvent(event) ==
    /\ subPc' = [s \in Subscribers |-> IF subPc[s] = "ready" THEN "busy" ELSE subPc[s]]
    /\ received' = [s \in Subscribers |->
                      IF subPc[s] = "ready" THEN Append(received[s], event)
                      ELSE received[s]]
    /\ missed' = [s \in Subscribers |->
                      IF subPc[s] = "busy" THEN missed[s] \cup {event} ELSE missed[s]]
    /\ UNCHANGED regAt

\* AddEvent as it would be if the events channel had room for the event:
\* the call returns at once.
AddEventBuffered(c) ==
    /\ addPc[c] = "idle"
    /\ nextEv <= MaxEvents
    /\ addReturned' = addReturned \cup {nextEv}
    /\ before' = [before EXCEPT ![nextEv] = addReturned]
    /\ nextEv' = nextEv + 1
    /\ UNCHANGED <<ecPc, ecCur, ecWg, ecSdPc, ecSdReturns, addPc, addEv, handed,
                   persisted, dropped, dispatched, persisting, sdSnapshot,
                   brokerVars, pullerVars, gatherVars,
                   callVars, serverVars>>

\* part_005:106-108: a caller enters AddEvent and offers its event on the
\* unbuffered events channel.
AddEvent(c) ==
    /\ addPc[c] = "idle"
    /\ nextEv <= MaxEvents
    /\ addPc' = [addPc EXCEPT ![c] = "sending"]
    /\ addEv' = [addEv EXCEPT ![c] = nextEv]
    /\ before' = [before EXCEPT ![nextEv] = addReturned]
    /\ nextEv' = nextEv + 1
    /\ UNCHANGED <<ecPc, ecCur, ecWg, ecSdPc, ecSdReturns, handed, persisted, dropped,
                   dispatched, persisting, addReturned, sdSnapshot, brokerVars, pullerVars,
                   gatherVars, callVars, serverVars>>

\* The receive as it would be if every event were stored in a task of its
\* own, the loop going back to its select at once.
mainLoopEventAsync(c) ==
    /\ ecPc = "select"
    /\ addPc[c] = "sending"
    /\ ecCur' = addEv[c]
    /\ handed' = Append(handed, addEv[c])
    /\ persisting' = persisting + 1
    /\ addReturned' = addReturned \cup {addEv[c]}
    /\ addPc' = [addPc EXCEPT ![c] = "idle"]
    /\ addEv' = [addEv EXCEPT ![c] = 0]
    /\ UNCHANGED <<ecPc, ecWg, ecSdPc, ecSdReturns, nextEv, persisted, dropped,
                   dispatched, before, sdSnapshot, brokerVars, pullerVars, gatherVars,
                   callVars, serverVars>>

\* The receive as it would be if the loop, on its way out, still took the
\* event a caller offers and let the caller go.
mainLoopEventWhileLeaving(c) ==
    /\ ecPc \in {"select", "returning"}
    /\ addPc[c] = "sending"
    /\ ecPc' = IF ecPc = "select" THEN "persist" ELSE ecPc
    /\ ecCur' = IF ecPc = "select" THEN addEv[c] ELSE ecCur
    /\ handed' = IF ecPc = "select" THEN Append(handed, addEv[c]) ELSE handed
    /\ persisting' = IF ecPc = "select" THEN persisting + 1 ELSE persisting
    /\ addReturned' = addReturned \cup {addEv[c]}
    /\ addPc' = [addPc EXCEPT ![c] = "idle"]
    /\ addEv' = [addEv EXCEPT ![c] = 0]
    /\ UNCHANGED <<ecWg, ecSdPc, ecSdReturns, nextEv, persisted, dropped, dispatched,
                   before, sdSnapshot, brokerVars, pullerVars, gatherVars,
                   callVars, serverVars>>

\* part_005:129-130 with 108-109: the select receives the event a caller
\* offers and calls dbmodel.AddEvent; the caller's send completes and its
\* AddEvent returns.
mainLoopEvent(c) ==
    /\ ecPc = "select"
    /\ addPc[c] = "sending"
    /\ ecPc' = "persist"
    /\ ecCur' = addEv[c]
    /\ handed' = Append(handed, addEv[c])
    /\ persisting' = persisting + 1
    /\ addReturned' = addReturned \cup {addEv[c]}
    /\ addPc' = [addPc EXCEPT ![c] = "idle"]
    /\ addEv' = [addEv EXCEPT ![c] = 0]
    /\ UNCHANGED <<ecWg, ecSdPc, ecSdReturns, nextEv, persisted, dropped, dispatched,
                   before, sdSnapshot, brokerVars, pullerVars, gatherVars,
                   callVars, serverVars>>

\* The end of dbmodel.AddEvent as it would be without the continue of line
\* 133: the event that was not stored is passed to the broker as well.
mainLoopPersistNoContinue ==
    /\ ecPc = "persist"
    /\ \E ok \in BOOLEAN :
        IF ok
            THEN /\ persisted' = Append(persisted, ecCur)
                 /\ UNCHANGED dropped
            ELSE /\ dropped' = dropped \cup {ecCur}
                 /\ UNCHANGED persisted
    /\ ecPc' = "dispatch"
    /\ persisting' = persisting - 1
    /\ UNCHANGED <<ecCur, ecWg, ecSdPc, ecSdReturns, addPc, addEv, nextEv, handed,
                   dispatched, addReturned, before, sdSnapshot, brokerVars, pullerVars,
                   gatherVars, callVars, serverVars>>

\* part_005:130-134: dbmodel.AddEvent stores the event or fails; on failure
\* the error is logged and the loop continues with its select.
mainLoopPersist ==
    /\ ecPc = "persist"
    /\ \E ok \in BOOLEAN :
        IF ok
            THEN /\ persisted' = Append(persisted, ecCur)
                 /\ ecPc' = "dispatch"
                 /\ UNCHANGED <<dropped, ecCur>>
            ELSE /\ dropped' = dropped \cup {ecCur}
                 /\ ecPc' = "select"
                 /\ ecCur' = 0
                 /\ UNCHANGED persisted
    /\ persisting' = persisting - 1
    /\ UNCHANGED <<ecWg, ecSdPc, ecSdReturns, addPc, addEv, nextEv, handed, dispatched,
                   addReturned, before, sdSnapshot, brokerVars, pullerVars, gatherVars,
                   callVars, serverVars>>

\* The dispatch as it would be if DispatchEvent were called a second time
\* for the same event.
mainLoopDispatchTwice ==
    /\ ecPc = "dispatch"
    /\ dispatched' = dispatched \o <<ecCur, ecCur>>
    /\ DispatchEvent(ecCur)
    /\ ecPc' = "select"
    /\ ecCur' = 0
    /\ UNCHANGED <<ecWg, ecSdPc, ecSdReturns, addPc, addEv, nextEv, handed, persisted,
                   dropped, persisting, addReturned, before, sdSnapshot, pullerVars,
                   gatherVars, callVars, serverVars>>

\* The dispatch as it would be if the broker were handed the newest event
\* ahead of the earlier ones.
mainLoopDispatchNewestFirst ==
    /\ ecPc = "dispatch"
    /\ dispatched' = <<ecCur>> \o dispatched
    /\ DispatchEvent(ecCur)
    /\ ecPc' = "select"
    /\ ecCur' = 0
    /\ UNCHANGED <<ecWg, ecSdPc, ecSdReturns, addPc, addEv, nextEv, handed, persisted,
                   dropped, persisting, addReturned, before, sdSnapshot, pullerVars,
                   gatherVars, callVars, serverVars>>

\* part_005:135: the stored event is passed to the broker.
mainLoopDispatch ==
    /\ ecPc = "dispatch"
    /\ dispatched' = Append(dispatched, ecCur)
    /\ DispatchEvent(ecCur)
    /\ ecPc' = "select"
    /\ ecCur' = 0
    /\ UNCHANGED <<ecWg, ecSdPc, ecSdReturns, addPc, addEv, nextEv, handed, persisted,
                   dropped, persisting, addReturned, before, sdSnapshot, pullerVars,
                   gatherVars, callVars, serverVars>>

\* The receive from done as it would be if the loop looked at done while an
\* event is being stored, leaving that event behind.
mainLoopDoneAnywhere ==
    /\ ecPc \in {"select", "persist"}
    /\ ecSdPc = "sending"
    /\ ecPc' = "returning"
    /\ ecSdPc' = "waiting"
    /\ persisting' = 0
    /\ UNCHANGED <<ecCur, ecWg, ecSdReturns, addPc, addEv, nextEv, handed, persisted,
                   dropped, dispatched, addReturned, before, sdSnapshot, brokerVars, pullerVars,
                   gatherVars, callVars, serverVars>>

\* part_005:126-127 with 114: the select takes the value Shutdown sends on
\* the unbuffered done channel.
mainLoopDone ==
    /\ ecPc = "select"
    /\ ecSdPc = "sending"
    /\ ecPc' = "returning"
    /\ ecSdPc' = "waiting"
    /\ UNCHANGED <<ecCur, ecWg, ecSdReturns, addPc, addEv, nextEv, handed, persisted,
                   dropped, dispatched, persisting, addReturned, before, sdSnapshot,
                   brokerVars, pullerVars, gatherVars,
                   callVars, serverVars>>

\* part_005:122: the deferred wg.Done() as the goroutine ends.
mainLoopExit ==
    /\ ecPc = "returning"
    /\ ecPc' = "exited"
    /\ ecWg' = ecWg - 1
    /\ UNCHANGED <<ecCur, ecSdPc, ecSdReturns, addPc, addEv, nextEv, handed, persisted,
                   dropped, dispatched, persisting, addReturned, before, sdSnapshot,
                   brokerVars, pullerVars, gatherVars,
                   callVars, serverVars>>

\* part_005:112-114: Shutdown offers a value on done.
ECShutdown ==
    /\ ecSdPc = "idle"
    /\ ecSdReturns < MaxShutdownCalls
    /\ ecSdPc' = "sending"
    /\ sdSnapshot' = addReturned
    /\ UNCHANGED <<ecPc, ecCur, ecWg, ecSdReturns, addPc, addEv, nextEv, handed,
                   persisted, dropped, dispatched, persisting, addReturned, before,
                   brokerVars, pullerVars, gatherVars,
                   callVars, serverVars>>

\* Shutdown as it would be without wg.Wait(): it returns once its value on
\* done has been taken.
ECShutdownNoWait ==
    /\ ecSdPc = "waiting"
    /\ ecSdPc' = "idle"
    /\ ecSdReturns' = ecSdReturns + 1
    /\ UNCHANGED <<ecPc, ecCur, ecWg, addPc, addEv, nextEv, handed, persisted, dropped,
                   dispatched, persisting, addReturned, before, sdSnapshot,
                   brokerVars, pullerVars, gatherVars,
                   callVars, serverVars>>

\* part_005:115-117: wg.Wait() returns when the counter is zero, and Shutdown returns.
ECShutdownReturn ==
    /\ ecSdPc = "waiting"
    /\ ecWg = 0
    /\ ecSdPc' = "idle"
    /\ ecSdReturns' = ecSdReturns + 1
    /\ UNCHANGED <<ecPc, ecCur, ecWg, addPc, addEv, nextEv, handed, persisted, dropped,
                   dispatched, persisting, addReturned, before, sdSnapshot,
                   brokerVars, pullerVars, gatherVars,
                   callVars, serverVars>>

\* Register as it would be if a new subscriber were sent the events
\* dispatched so far.
RegisterReplay(s) ==
    /\ subPc[s] = "new"
    /\ ecPc \notin {"none", "exited"}
    /\ subPc' = [subPc EXCEPT ![s] = "ready"]
    /\ received' = [received EXCEPT ![s] = dispatched]
    /\ regAt' = [regAt EXCEPT ![s] = Len(dispatched)]
    /\ UNCHANGED <<ecPc, ecCur, ecWg, ecSdPc, ecSdReturns, addPc, addEv, nextEv, handed,
                   persisted, dropped, dispatched, persisting, addReturned, before,
                   sdSnapshot, missed, pullerVars, gatherVars,
                   callVars, serverVars>>

\* part_005:141-143: a client opens a live connection; ServeHTTP hands the
\* request to the broker, which registers a subscriber for it.
Register(s) ==
    /\ subPc[s] = "new"
    /\ ecPc \notin {"none", "exited"}
    /\ subPc' = [subPc EXCEPT ![s] = "ready"]
    /\ regAt' = [regAt EXCEPT ![s] = Len(dispatched)]
    /\ UNCHANGED <<ecPc, ecCur, ecWg, ecSdPc, ecSdReturns, addPc, addEv, nextEv, handed,
                   persisted, dropped, dispatched, persisting, addReturned, before,
                   sdSnapshot, received, missed, pullerVars, gatherVars,
                   callVars, serverVars>>

\* A subscriber has written the event it holds to its stream and waits for
\* the next one.  A stalled subscriber never takes this step.
subscriberWritten(s) ==
    /\ subPc[s] = "busy"
    /\ subPc' = [subPc EXCEPT ![s] = "ready"]
    /\ UNCHANGED <<ecPc, ecCur, ecWg, ecSdPc, ecSdReturns, addPc, addEv, nextEv, handed,
                   persisted, dropped, dispatched, persisting, addReturned, before,
                   sdSnapshot, received, missed, regAt, pullerVars, gatherVars,
                   callVars, serverVars>>

\* The connection of a subscriber closes or fails: the broker unregisters it.
Unregister(s) ==
    /\ subPc[s] \in {"ready", "busy"}
    /\ subPc' = [subPc EXCEPT ![s] = "gone"]
    /\ UNCHANGED <<ecPc, ecCur, ecWg, ecSdPc, ecSdReturns, addPc, addEv, nextEv, handed,
                   persisted, dropped, dispatched, persisting, addReturned, before,
                   sdSnapshot, received, missed, regAt, pullerVars, gatherVars,
                   callVars, serverVars>>

ECNext ==
    \/ \E c \in Callers : AddEvent(c)
    \/ \E c \in Callers : mainLoopEvent(c)
    \/ mainLoopPersist
    \/ mainLoopDispatch
    \/ mainLoopDone
    \/ mainLoopExit
    \/ ECShutdown
    \/ ECShutdownReturn

\* ------------------------------------------------------ calls of functions
\* No function is being called.
CallIdle ==
    /\ cIn = <<>>
    /\ cPc = "idle"
    /\ cOut = <<>>
    /\ settings = <<>>
    /\ sLast = <<>>

\* ------------------------------------------------------------ CreateEvent
\* part_005:55-68: the wrappers and the level each passes to addEvent.
Wrappers == {"AddInfoEvent", "AddWarnEvent", "AddErroEvent"}
levelOf(wrapper) ==
    IF wrapper = "AddInfoEvent" THEN "EvInfo"
    ELSE IF wrapper = "AddWarnEvent" THEN "EvWarn"
    ELSE "EvErro"

\* An event text is a sequence of tokens: plain text, the placeholder of a
\* kind of entity, or (once replaced) the tag of an entity.
Kinds == {"daemon", "app", "machine", "subnet"}
PlainText == [tag |-> "text"]
Placeholder(kind) == [tag |-> "placeholder", kind |-> kind]
Tokens == {PlainText} \cup {Placeholder(k) : k \in Kinds}
Texts(n) == UNION {[1..k -> Tokens] : k \in 0..n}

\* The objects passed with a text: two of each recognized type, and one of a
\* type CreateEvent does not know.
SampleObjects ==
    { [type |-> "Daemon", id |-> 3, name |-> "dhcp4", appId |-> 1, appType |-> "kea"],
      [type |-> "Daemon", id |-> 4, name |-> "named", appId |-> 2, appType |-> "bind9"],
      [type |-> "App", id |-> 1, appType |-> "kea", version |-> "1.7.4"],
      [type |-> "App", id |-> 2, appType |-> "bind9", version |-> "9.16"],
      [type |-> "Machine", id |-> 5, address |-> "10.0.0.1", hostname |-> "a"],
      [type |-> "Machine", id |-> 7, address |-> "10.0.0.2", hostname |-> "b"],
      [type |-> "Subnet", id |-> 8, prefix |-> "192.0.2.0/24"],
      [type |-> "Subnet", id |-> 9, prefix |-> "2001:db8::/64"],
      [type |-> "Other", id |-> 6] }
ObjectLists(n) == UNION {[1..k -> SampleObjects] : k \in 0..n}

\* part_005:146-170: the tags.
daemonTag(daemon) ==
    [tag |-> "daemon", id |-> daemon.id, name |-> daemon.name, appId |-> daemon.appId,
     appType |-> daemon.appType]
appTag(app) == [tag |-> "app", id |-> app.id, type |-> app.appType, version |-> app.version]
machineTag(machine) ==
    [tag |-> "machine", id |-> machine.id, address |-> machine.address,
     hostname |-> machine.hostname]
subnetTag(subnet) == [tag |-> "subnet", id |-> subnet.id, prefix |-> subnet.prefix]

\* strings.Replace as it would be with a count of 1: the first placeholder only.
ReplaceFirst(text, kind, tag) ==
    [n \in 1..Len(text) |->
        IF text[n] = Placeholder(kind) /\ \A m \in 1..(n - 1) : text[m] # Placeholder(kind)
            THEN tag ELSE text[n]]

\* strings.Replace(text, "{kind}", tag, -1): every placeholder of the kind.
Replace(text, kind, tag) ==
    [n \in 1..Len(text) |-> IF text[n] = Placeholder(kind) THEN tag ELSE text[n]]

\* The assignment as it would be if an id already recorded were kept.
setRelationIfUnset(relations, kind, id) ==
    IF relations[kind] = 0 THEN [relations EXCEPT ![kind] = id] ELSE relations

\* part_005:78, 81, 84, 87: relations.Kind = obj.ID.
setRelation(relations, kind, id) == [relations EXCEPT ![kind] = id]

\* part_005:74: &dbmodel.Relations{}, no id recorded.
NoRelations == [k \in Kinds |-> 0]

\* The body of the loop as it would be if its last branch took every object
\* the earlier branches left.
applyObjectLastBranchOpen(acc, obj) ==
    IF obj.type = "Daemon"
        THEN [text |-> Replace(acc.text, "daemon", daemonTag(obj)),
              relations |-> setRelation(acc.relations, "daemon", obj.id)]
    ELSE IF obj.type = "App"
        THEN [text |-> Replace(acc.text, "app", appTag(obj)),
              relations |-> setRelation(acc.relations, "app", obj.id)]
    ELSE IF obj.type = "Machine"
        THEN [text |-> Replace(acc.text, "machine", machineTag(obj)),
              relations |-> setRelation(acc.relations, "machine", obj.id)]
    ELSE [text |-> Replace(acc.text, "subnet", [tag |-> "subnet", id |-> obj.id]),
          relations |-> setRelation(acc.relations, "subnet", obj.id)]

\* part_005:76-88: the body of the loop over objects, a switch on the type.
applyObject(acc, obj) ==
    IF obj.type = "Daemon"
        THEN [text |-> Replace(acc.text, "daemon", daemonTag(obj)),
              relations |-> setRelation(acc.relations, "daemon", obj.id)]
    ELSE IF obj.type = "App"
        THEN [text |-> Replace(acc.text, "app", appTag(obj)),
              relations |-> setRelation(acc.relations, "app", obj.id)]
    ELSE IF obj.type = "Machine"
        THEN [text |-> Replace(acc.text, "machine", machineTag(obj)),
              relations |-> setRelation(acc.relations, "machine", obj.id)]
    ELSE IF obj.type = "Subnet"
        THEN [text |-> Replace(acc.text, "subnet", subnetTag(obj)),
              relations |-> setRelation(acc.relations, "subnet", obj.id)]
    ELSE acc

\* part_005:75-89: the loop over objects, from index i on.
RECURSIVE applyObjects(_, _, _)
applyObjects(acc, objects, i) ==
    IF i > Len(objects) THEN acc
    ELSE applyObjects(applyObject(acc, objects[i]), objects, i + 1)

\* part_005:73-96.
CreateEvent(level, text, objects) ==
    LET r == applyObjects([text |-> text, relations |-> NoRelations], objects, 1)
    IN  [text |-> r.text, level |-> level, relations |-> r.relations]

\* A wrapper is called with any text of at most MaxText tokens and any list
\* of at most MaxObjects objects.
CreateEventInit ==
    /\ cIn \in [wrapper : Wrappers, text : Texts(MaxText), objects : ObjectLists(MaxObjects)]
    /\ cPc = "ready"
    /\ cOut = <<>>
    /\ settings = <<>>
    /\ sLast = <<>>

\* part_005:55-68 with 98-100: the wrapper passes its level to addEvent, which
\* calls CreateEvent.
RunCreateEvent ==
    /\ cPc = "ready"
    /\ cOut' = CreateEvent(levelOf(cIn.wrapper), cIn.text, cIn.objects)
    /\ cPc' = "done"
    /\ UNCHANGED <<cIn, settings, sLast, pullerVars, gatherVars, ecVars, serverVars>>

\* -------------------------------------------------------------- GetLeases
\* params.Text: nil, or a string of characters, blank or not.
NilText == [isNil |-> TRUE, chars |-> <<>>]
SearchTexts ==
    {NilText} \cup
    {[isNil |-> FALSE, chars |-> c] : c \in UNION {[1..k -> {" ", "a"}] : k \in 0..(1 + 1)}}

\* strings.TrimSpace (part_001:27): the string without its leading and
\* trailing blanks.
RECURSIVE TrimLeft(_)
TrimLeft(chars) ==
    IF chars # <<>> /\ Head(chars) = " " THEN TrimLeft(Tail(chars)) ELSE chars
RECURSIVE TrimRight(_)
TrimRight(chars) ==
    IF chars # <<>> /\ chars[Len(chars)] = " "
        THEN TrimRight(SubSeq(chars, 1, Len(chars) - 1)) ELSE chars
TrimSpace(chars) == TrimRight(TrimLeft(chars))

\* A Kea server of the search: whether it answers, and the leases it holds
\* for the text; a lease names its app or not (l.App may be nil).
LeasesOf(id) ==
    { <<>>,
      <<[appId |-> id, ip |-> "192.0.2.1", hasApp |-> TRUE]>>,
      <<[appId |-> id, ip |-> "192.0.2.1", hasApp |-> FALSE],
        [appId |-> id, ip |-> "192.0.2.2", hasApp |-> TRUE]>> }
LeaseAppLists(n) ==
    UNION {{f \in [1..k -> [id : 1..k, ok : BOOLEAN,
                             leases : UNION {LeasesOf(i) : i \in 1..k}]] :
                \A i \in 1..k : f[i].id = i /\ f[i].leases \in LeasesOf(i)}
           : k \in 0..n}

\* kea.FindLeases (called at part_001:35), after the usage text of
\* server.go:563-569: the leases found on the servers that answered, the
\* servers that did not, and an error for a database error only.
RECURSIVE foundOn(_, _)
foundOn(apps, i) ==
    IF i > Len(apps) THEN [leases |-> <<>>, erredApps |-> <<>>]
    ELSE LET rest == foundOn(apps, i + 1)
         IN  IF apps[i].ok
                 THEN [rest EXCEPT !.leases = apps[i].leases \o rest.leases]
                 ELSE [rest EXCEPT !.erredApps = <<apps[i].id>> \o rest.erredApps]
FindLeases(dbErr, apps) ==
    IF dbErr THEN [leases |-> <<>>, erredApps |-> <<>>, err |-> TRUE]
    ELSE [leases |-> foundOn(apps, 1).leases, erredApps |-> foundOn(apps, 1).erredApps,
          err |-> FALSE]

\* part_001:47-76: a lease as it is returned over the REST API.
restLease(l) ==
    [id |-> 0, appId |-> l.appId, appName |-> IF l.hasApp THEN <<"app", l.appId>> ELSE <<>>,
     ipAddress |-> l.ip]

\* GetLeases as it would be if a server that erred failed the search.
GetLeasesFailOnErredApp(text, dbErr, apps) ==
    LET res == FindLeases(dbErr, apps)
        items == [n \in 1..Len(res.leases) |-> restLease(res.leases[n])]
    IN  IF text.isNil \/ TrimSpace(text.chars) = <<>>
            THEN [status |-> "OK", items |-> <<>>, total |-> 0, erredApps |-> <<>>]
        ELSE IF res.err \/ res.erredApps # <<>>
            THEN [status |-> "InternalServerError", items |-> <<>>, total |-> 0,
                  erredApps |-> <<>>]
        ELSE [status |-> "OK", items |-> items, total |-> Len(items),
              erredApps |-> res.erredApps]

\* part_001:21-93.
GetLeases(text, dbErr, apps) ==
    LET res == FindLeases(dbErr, apps)
        items == [n \in 1..Len(res.leases) |-> restLease(res.leases[n])]
    IN  IF text.isNil \/ TrimSpace(text.chars) = <<>>
            THEN [status |-> "OK", items |-> <<>>, total |-> 0, erredApps |-> <<>>]
        ELSE IF res.err
            THEN [status |-> "InternalServerError", items |-> <<>>, total |-> 0,
                  erredApps |-> <<>>]
        ELSE [status |-> "OK", items |-> items, total |-> Len(items),
              erredApps |-> res.erredApps]

\* A search with any text, a database that fails or not, and at most MaxApps
\* Kea servers.
GetLeasesInit ==
    /\ cIn \in [text : SearchTexts, dbErr : BOOLEAN, apps : LeaseAppLists(MaxApps)]
    /\ cPc = "ready"
    /\ cOut = <<>>
    /\ settings = <<>>
    /\ sLast = <<>>

RunGetLeases ==
    /\ cPc = "ready"
    /\ cOut' = GetLeases(cIn.text, cIn.dbErr, cIn.apps)
    /\ cPc' = "done"
    /\ UNCHANGED <<cIn, settings, sLast, pullerVars, gatherVars, ecVars, serverVars>>

\* --------------------------------------------------------------- settings
\* part_003:10-13.
SettingValTypeInt == 1
SettingValTypeBool == 2
SettingValTypeStr == 3
SettingValTypePasswd == 4
ValTypes == {SettingValTypeInt, SettingValTypeBool, SettingValTypeStr, SettingValTypePasswd}

\* part_003:26-30: the list of default settings.
defaultSettings ==
    <<[name |-> "kea_stats_puller_interval", valType |-> SettingValTypeInt, value |-> "60"]>>

\* The names looked up, and the rows the table may hold under a name at the
\* start (part_003:16-20): no row, or a row of any type and value.
SettingNames == {"kea_stats_puller_interval", "other"}
NoRow == [present |-> FALSE, valType |-> 0, value |-> ""]
Row(valType, value) == [present |-> TRUE, valType |-> valType, value |-> value]
StoredRows == {NoRow} \cup {Row(t, v) : t \in ValTypes, v \in {"60", "true", "abc"}}

\* strconv.FormatInt, FormatBool, and whether ParseInt, ParseBool accept a string.
IntValues == {0, 60}
FormatInt(n) == IF n = 0 THEN "0" ELSE "60"
FormatBool(b) == IF b THEN "true" ELSE "false"
ParsesAsInt(str) == str \in {"0", "60"}
ParsesAsBool(str) == str \in {"0", "1", "true", "false"}

\* What a call on the settings leaves in sLast.
Called(op, name, valType, err) ==
    [op |-> op, name |-> name, valType |-> valType, err |-> err, before |-> settings]

\* part_003:42-62: the loop over defaultSettings from index i on, on the rows
\* selected before the loop; insertErr: db.Insert fails.
RECURSIVE insertMissing(_, _, _, _)

\* The loop as it would be if a default were written over the row that exists.
RECURSIVE insertAll(_, _, _, _)
insertAll(table, selected, i, insertErr) ==
    IF i > Len(defaultSettings) THEN [table |-> table, err |-> "nil"]
    ELSE LET sDef == defaultSettings[i]
         IN  IF insertErr THEN [table |-> table, err |-> "insert"]
             ELSE insertAll([table EXCEPT ![sDef.name] = Row(sDef.valType, sDef.value)],
                            selected, i + 1, insertErr)

insertMissing(table, selected, i, insertErr) ==
    IF i > Len(defaultSettings) THEN [table |-> table, err |-> "nil"]
    ELSE LET sDef == defaultSettings[i]
         IN  IF selected[sDef.name].present
                 THEN insertMissing(table, selected, i + 1, insertErr)
             ELSE IF insertErr THEN [table |-> table, err |-> "insert"]
             ELSE insertMissing([table EXCEPT ![sDef.name] = Row(sDef.valType, sDef.value)],
                                selected, i + 1, insertErr)

\* part_003:24-64.  selectErr: the select of the present settings fails.
InitializeSettings(selectErr, insertErr) ==
    LET r == insertMissing(settings, settings, 1, insertErr)
    IN  /\ IF selectErr
               THEN /\ sLast' = Called("InitializeSettings", "", 0, "select")
                    /\ UNCHANGED settings
               ELSE /\ sLast' = Called("InitializeSettings", "", 0, r.err)
                    /\ settings' = r.table
        /\ UNCHANGED <<cIn, cPc, cOut, pullerVars, gatherVars, ecVars, serverVars>>

\* part_003:67-77: the error of GetSetting; dbErr: the select fails.
getSettingErr(name, dbErr) ==
    IF dbErr THEN "db"
    ELSE IF ~settings[name].present THEN "missing"
    ELSE "nil"

\* part_003:80-133: GetSettingInt, GetSettingBool, GetSettingStr and
\* GetSettingPasswd, told apart by the type each expects.
getTyped(valType, name, dbErr) ==
    LET e == getSettingErr(name, dbErr)
        s == settings[name]
    IN  IF e # "nil" THEN e
        ELSE IF s.valType # valType THEN "type"
        ELSE IF valType = SettingValTypeInt /\ ~ParsesAsInt(s.value) THEN "parse"
        ELSE IF valType = SettingValTypeBool /\ ~ParsesAsBool(s.value) THEN "parse"
        ELSE "nil"
GetSettingTyped(valType, name, dbErr) ==
    /\ sLast' = Called("Get", name, valType, getTyped(valType, name, dbErr))
    /\ UNCHANGED <<settings, cIn, cPc, cOut, pullerVars, gatherVars, ecVars, serverVars>>

\* part_003:136-201: the body shared by the four setters, told apart by the
\* type each expects and the string it stores; updateErr: db.Update fails.
setTyped(valType, name, str, dbErr, updateErr) ==
    LET e == getSettingErr(name, dbErr)
        s == settings[name]
    IN  /\ IF e # "nil"
               THEN sLast' = Called("Set", name, valType, e) /\ UNCHANGED settings
           ELSE IF s.valType # valType
               THEN sLast' = Called("Set", name, valType, "type") /\ UNCHANGED settings
           ELSE IF updateErr
               THEN sLast' = Called("Set", name, valType, "update") /\ UNCHANGED settings
           ELSE /\ sLast' = Called("Set", name, valType, "nil")
                /\ settings' = [settings EXCEPT ![name] = [s EXCEPT !.value = str]]
        /\ UNCHANGED <<cIn, cPc, cOut, pullerVars, gatherVars, ecVars, serverVars>>

\* SetSettingInt as it would be without the test of the stored type.
SetSettingIntNoTypeCheck(name, value, dbErr, updateErr) ==
    LET e == getSettingErr(name, dbErr)
        s == settings[name]
    IN  /\ IF e # "nil"
               THEN sLast' = Called("Set", name, SettingValTypeInt, e) /\ UNCHANGED settings
           ELSE IF updateErr
               THEN /\ sLast' = Called("Set", name, SettingValTypeInt, "update")
                    /\ UNCHANGED settings
           ELSE /\ sLast' = Called("Set", name, SettingValTypeInt, "nil")
                /\ settings' = [settings EXCEPT
                                  ![name] = [s EXCEPT !.value = FormatInt(value)]]
        /\ UNCHANGED <<cIn, cPc, cOut, pullerVars, gatherVars, ecVars, serverVars>>

\* part_003:136-150.
SetSettingInt(name, value, dbErr, updateErr) ==
    setTyped(SettingValTypeInt, name, FormatInt(value), dbErr, updateErr)
\* part_003:153-167.
SetSettingBool(name, value, dbErr, updateErr) ==
    setTyped(SettingValTypeBool, name, FormatBool(value), dbErr, updateErr)
\* part_003:170-184.
SetSettingStr(name, value, dbErr, updateErr) ==
    setTyped(SettingValTypeStr, name, value, dbErr, updateErr)
\* part_003:187-201.
SetSettingPasswd(name, value, dbErr, updateErr) ==
    setTyped(SettingValTypePasswd, name, value, dbErr, updateErr)

\* The setting table at the start: any rows under the names.
SettingsInit ==
    /\ settings \in [SettingNames -> StoredRows]
    /\ sLast = [op |-> "none", name |-> "", valType |-> 0, err |-> "nil",
                before |-> settings]
    /\ cIn = <<>>
    /\ cPc = "idle"
    /\ cOut = <<>>

SettingsNext ==
    \/ \E selectErr, insertErr \in BOOLEAN : InitializeSettings(selectErr, insertErr)
    \/ \E t \in ValTypes, name \in SettingNames, dbErr \in BOOLEAN :
           GetSettingTyped(t, name, dbErr)
    \/ \E name \in SettingNames, v \in IntValues, dbErr, updateErr \in BOOLEAN :
           SetSettingInt(name, v, dbErr, updateErr)
    \/ \E name \in SettingNames, v \in BOOLEAN, dbErr, updateErr \in BOOLEAN :
           SetSettingBool(name, v, dbErr, updateErr)
    \/ \E name \in SettingNames, v \in {"abc"}, dbErr, updateErr \in BOOLEAN :
           SetSettingStr(name, v, dbErr, updateErr)
    \/ \E name \in SettingNames, v \in {"abc"}, dbErr, updateErr \in BOOLEAN :
           SetSettingPasswd(name, v, dbErr, updateErr)

\* ------------------------------------------------------------- GetSubnets
\* part_002:35-252: the subnets TestGetSubnets stores, by id, with the app
\* each belongs to (a4 = 1, a6 = 2, a46 = 3), its family, the number of its
\* pools, and which of the searched texts occur in its prefix or pools.
TestSubnets ==
    << [id |-> 1, appId |-> 1, family |-> 4, pools |-> 2, texts |-> {"0.150-192.168"}],
       [id |-> 2, appId |-> 2, family |-> 6, pools |-> 0, texts |-> {}],
       [id |-> 3, appId |-> 3, family |-> 4, pools |-> 1, texts |-> {"118.0.0/2"}],
       [id |-> 4, appId |-> 3, family |-> 6, pools |-> 1, texts |-> {}],
       [id |-> 21, appId |-> 3, family |-> 6, pools |-> 0, texts |-> {}] >>

\* The tables that hold some of these subnets, in the order of their ids.
keepStored(keep) ==
    LET kept(sn) == sn.id \in keep
    IN  SelectSeq(TestSubnets, kept)
SubnetTables == {keepStored(keep) : keep \in SUBSET {1, 2, 3, 4, 21}}

\* part_002:27, 254-307: the parameters; 0 and "" stand for a parameter that
\* is not given.
SubnetParams ==
    [appId : {0, 1, 2, 3}, dhcpVersion : {0, 4, 6},
     text : {"", "118.0.0/2", "0.150-192.168", "no such text"}]

\* GetSubnets as it would be if a subnet that satisfies one of the filters
\* given were returned.
GetSubnetsAnyFilter(params, stored) ==
    LET any(sn) ==
            \/ params.appId = 0 /\ params.dhcpVersion = 0 /\ params.text = ""
            \/ params.appId # 0 /\ sn.appId = params.appId
            \/ params.dhcpVersion # 0 /\ sn.family = params.dhcpVersion
            \/ params.text # "" /\ params.text \in sn.texts
        items == SelectSeq(stored, any)
    IN  [status |-> "OK", items |-> items, total |-> Len(items)]

\* RestAPI.GetSubnets, as TestGetSubnets expects it: the stored subnets are
\* narrowed by each parameter that is given, one after the other.
GetSubnets(params, stored) ==
    LET ofApp(sn) == sn.appId = params.appId
        ofFamily(sn) == sn.family = params.dhcpVersion
        withText(sn) == params.text \in sn.texts
        byApp == IF params.appId = 0 THEN stored ELSE SelectSeq(stored, ofApp)
        byFamily == IF params.dhcpVersion = 0 THEN byApp ELSE SelectSeq(byApp, ofFamily)
        byText == IF params.text = "" THEN byFamily ELSE SelectSeq(byFamily, withText)
    IN  [status |-> "OK", items |-> byText, total |-> Len(byText)]

GetSubnetsInit ==
    /\ cIn \in [params : SubnetParams, stored : SubnetTables]
    /\ cPc = "ready"
    /\ cOut = <<>>
    /\ settings = <<>>
    /\ sLast = <<>>

RunGetSubnets ==
    /\ cPc = "ready"
    /\ cOut' = GetSubnets(cIn.params, cIn.stored)
    /\ cPc' = "done"
    /\ UNCHANGED <<cIn, settings, sLast, pullerVars, gatherVars, ecVars, serverVars>>

\* ------------------------------------------------------------ StorkServer
\* No StorkServer has been constructed.
ServerNone ==
    /\ ssPc = "none"
    /\ ssFailAt = "none"
    /\ ssAgents = "none"
    /\ ssDb = "none"
    /\ ssHosts = "none"
    /\ ssRest = "none"

\* The process before it calls NewStorkServer.
ServerInit ==
    /\ ssPc = "start"
    /\ ssFailAt = "none"
    /\ ssAgents = "none"
    /\ ssDb = "none"
    /\ ssHosts = "none"
    /\ ssRest = "none"

\* server.go:81-110: the calls of NewStorkServer that may return an error, in
\* the order they are made; "none": none of them fails.
FailPoints == <<"db", "settings", "stats", "hosts", "rest", "none">>
Step(name) == CHOOSE n \in 1..Len(FailPoints) : FailPoints[n] = name
\* The call named is reached and succeeds when the failing one comes later.
Passed(name, failAt) == Step(name) < Step(failAt)

\* statspuller.go:24-39, called at server.go:93: NewStatsPuller makes the
\* ticker, of a period of one second, and starts the loop goroutine, which
\* waits in its select.
NewStatsPuller ==
    /\ interval' = 1
    /\ phase' = 0
    /\ tickerStopped' = FALSE
    /\ tickerC' = <<>>
    /\ wg' = 1
    /\ loopPc' = "select"
    /\ inFlight' = 0
    /\ sdPc' = "idle"
    /\ sdReturns' = 0
    /\ sinceReturn' = NoReturn
    /\ nStarted' = 0
    /\ curId' = 0
    /\ caused' = [k \in 1..MaxInvocations |-> 0]
    /\ lastOutcome' = "none"
    /\ errLogged' = FALSE
    /\ startsAfterStop' = 0
    /\ firedIn' = [k \in 1..MaxInvocations |-> 0]
    /\ calledInFlight' = FALSE

\* kea.NewHostsPuller, called at server.go:99: the hosts puller is a puller
\* like the stats puller; once made, its background task runs until its own
\* Shutdown is called.
NewHostsPuller == "running"

\* server.go:68-113: NewStorkServer up to its return, or up to line 107 when
\* NewRestAPI fails.  Agents.Shutdown is deferred for every error return
\* (lines 74-78); the other returns of lines 83-101 release nothing else.
NewStorkServer(failAt) ==
    /\ ssPc = "start"
    /\ ssFailAt' = failAt
    /\ ssDb' = IF Passed("db", failAt) THEN "open" ELSE "none"
    /\ IF Passed("stats", failAt)
         THEN NewStatsPuller
         ELSE UNCHANGED pullerVars
    /\ ssHosts' = IF Passed("hosts", failAt) THEN NewHostsPuller ELSE "none"
    /\ ssRest' = IF failAt = "none" THEN "up" ELSE "none"
    /\ ssAgents' = IF failAt \in {"none", "rest"} THEN "up" ELSE "down"
    /\ ssPc' = IF failAt = "none" THEN "serving"
               ELSE IF failAt = "rest" THEN "restFailed"
               ELSE "failed"
    /\ UNCHANGED <<gatherVars, ecVars, callVars>>

\* server.go:107 and 128: StatsPuller.Shutdown is called.
StatsPullerShutdown ==
    /\ ssPc \in {"restFailed", "sdStats"}
    /\ sdReturns = 0
    /\ Shutdown

\* server.go:108-109 with 74-78: StatsPuller.Shutdown has returned; the
\* database is closed, NewStorkServer returns the error and the deferred
\* function shuts the agents down.
NewStorkServerRestFailed ==
    /\ ssPc = "restFailed"
    /\ sdPc = "idle"
    /\ sdReturns = 1
    /\ ssDb' = "closed"
    /\ ssAgents' = "down"
    /\ ssPc' = "failed"
    /\ UNCHANGED <<ssFailAt, ssHosts, ssRest, pullerVars, gatherVars, ecVars, callVars>>

\* server.go:125-127: Shutdown is called and shuts the REST API down.
StorkServerShutdown ==
    /\ ssPc = "serving"
    /\ loopPc # "crashed"
    /\ ssRest' = "down"
    /\ ssPc' = "sdStats"
    /\ UNCHANGED <<ssFailAt, ssAgents, ssDb, ssHosts, pullerVars, gatherVars, ecVars,
                   callVars>>

\* Db.Close as it would be if StatsPuller.Shutdown were left to run in a
\* goroutine of its own.
DbCloseWithoutWaiting ==
    /\ ssPc = "sdStats"
    /\ sdPc # "idle" \/ sdReturns = 1
    /\ loopPc # "crashed"
    /\ ssDb' = "closed"
    /\ ssPc' = "sdAgents"
    /\ UNCHANGED <<ssFailAt, ssAgents, ssHosts, ssRest, pullerVars, gatherVars, ecVars,
                   callVars>>

\* server.go:128-129: StatsPuller.Shutdown has returned and the database is
\* closed.
DbClose ==
    /\ ssPc = "sdStats"
    /\ sdPc = "idle"
    /\ sdReturns = 1
    /\ ssDb' = "closed"
    /\ ssPc' = "sdAgents"
    /\ UNCHANGED <<ssFailAt, ssAgents, ssHosts, ssRest, pullerVars, gatherVars, ecVars,
                   callVars>>

\* server.go:130-132: the agents are shut down and Shutdown returns.
AgentsShutdown ==
    /\ ssPc = "sdAgents"
    /\ ssAgents' = "down"
    /\ ssPc' = "down"
    /\ UNCHANGED <<ssFailAt, ssDb, ssHosts, ssRest, pullerVars, gatherVars, ecVars,
                   callVars>>

\* The server and its stats puller; time passes once the puller's ticker runs.
ServerNext ==
    \/ \E failAt \in Range(FailPoints) : NewStorkServer(failAt)
    \/ NewStorkServerRestFailed
    \/ StorkServerShutdown
    \/ StatsPullerShutdown
    \/ DbClose
    \/ AgentsShutdown
    \/ loopPc # "none" /\ Advance
    \/ pullerLoopTick
    \/ pullerLoopActionReturn
    \/ pullerLoopDone
    \/ pullerLoopExit
    \/ ShutdownReturn

\* ---------------------------------------------------------- specifications
\* One call of GetSubnets on every table and every choice of parameters.
InitGetSubnets == PullerNone /\ ECNone /\ GatherIdle /\ GetSubnetsInit /\ ServerNone
SpecGetSubnets == InitGetSubnets /\ [][RunGetSubnets]_vars

\* The server from the start of the process on.
InitServer == PullerNone /\ ECNone /\ GatherIdle /\ CallIdle /\ ServerInit
SpecServer == InitServer /\ [][ServerNext]_vars

\* The setting table and the calls made on it.
InitSettings == PullerNone /\ ECNone /\ GatherIdle /\ SettingsInit /\ ServerNone
SpecSettings == InitSettings /\ [][SettingsNext]_vars

\* One lease search.
InitGetLeases == PullerNone /\ ECNone /\ GatherIdle /\ GetLeasesInit /\ ServerNone
SpecGetLeases == InitGetLeases /\ [][RunGetLeases]_vars

\* One call of a wrapper of CreateEvent on every text and list of objects.
InitCreateEvent == PullerNone /\ ECNone /\ GatherIdle /\ CreateEventInit /\ ServerNone
SpecCreateEvent == InitCreateEvent /\ [][RunCreateEvent]_vars

\* The stats puller from construction on.
InitPuller == PullerInit /\ ECNone /\ GatherIdle /\ CallIdle /\ ServerNone
SpecPuller == InitPuller /\ [][PullerNext]_vars

\* The puller with time passing and the goroutines scheduled: a goroutine
\* that can take a step is eventually run; Shutdown is called or not.
SpecPullerFair ==
    /\ SpecPuller
    /\ WF_vars(Advance)
    /\ WF_vars(pullerLoopTick)
    /\ WF_vars(pullerLoopActionReturn)
    /\ WF_vars(pullerLoopDone)
    /\ WF_vars(pullerLoopExit)
    /\ WF_vars(ShutdownReturn)

\* One collection cycle on every list of at most MaxApps apps.
InitGather == PullerNone /\ ECNone /\ GatherInit /\ CallIdle /\ ServerNone
SpecGather == InitGather /\ [][RunGather]_vars

\* One call of getLeaseStatsFromApp on every single app.
InitApp == PullerNone /\ ECNone /\ AppInit /\ CallIdle /\ ServerNone
SpecApp == InitApp /\ [][RunApp]_vars

\* The event center from construction on.
InitEventCenter == PullerNone /\ ECInit /\ GatherIdle /\ CallIdle /\ ServerNone
SpecEventCenter == InitEventCenter /\ [][ECNext]_vars

\* The event center fed by one caller, with clients that open and close live
\* connections.
BrokerNext ==
    \/ AddEvent(1)
    \/ mainLoopEvent(1)
    \/ mainLoopPersist
    \/ mainLoopDispatch
    \/ \E s \in Subscribers : Register(s)
    \/ \E s \in Subscribers : subscriberWritten(s)
    \/ \E s \in Subscribers : Unregister(s)
SpecBroker == InitEventCenter /\ [][BrokerNext]_vars

\* The event center where dbmodel.AddEvent and DispatchEvent return: a step of
\* the loop that can be taken is taken.
SpecEventCenterFair ==
    /\ SpecEventCenter
    /\ WF_vars(mainLoopPersist)
    /\ WF_vars(mainLoopDispatch)

\* The two background loops, each object from its construction on.  The
\* objects share no state, so each is followed on its own.
LoopsInit ==
    \/ PullerInit /\ ECNone /\ GatherIdle /\ CallIdle /\ ServerNone
    \/ PullerNone /\ ECInit /\ GatherIdle /\ CallIdle /\ ServerNone
LoopsNext == PullerNext \/ ECNext
SpecLoops == LoopsInit /\ [][LoopsNext]_vars



\* ------------------------------------------------------------------ claims

\* C1: at most one invocation of gatherLeaseStats is in flight at any time,
\* whatever the interval and however long an invocation lasts.
C1_AtMostOneInFlight == inFlight <= 1

\* An invocation that has outlasted the interval: two ticks fired during it.
C1_Witness == \E k \in 1..MaxInvocations : inFlight = 1 /\ curId = k /\ firedIn[k] = 2

\* C2: once Shutdown has returned the loop goroutine has exited and no
\* invocation is in flight, and no invocation starts from then on.
C2_ShutdownAfterExit ==
    /\ [](sdReturns > 0 => loopPc = "exited" /\ inFlight = 0 /\ wg = 0)
    /\ [][sdReturns > 0 => inFlight' <= inFlight]_vars

\* Shutdown was called during an invocation, and has returned.
C2_Witness == sdReturns > 0 /\ calledInFlight /\ loopPc = "exited"

\* C3: an invocation that returns an error sends the loop back to its
\* select; the loop leaves only after Shutdown was called; and unless
\* Shutdown is called the action is invoked again after a failure.
C3_FailureKeepsTicking ==
    /\ [][(inFlight' < inFlight /\ lastOutcome' = "err") => loopPc' = "select"]_vars
    /\ [](loopPc \in {"returning", "exited"} => ShutdownCalled)
    /\ ((lastOutcome = "err" /\ loopPc = "select") ~> (loopPc = "action" \/ ShutdownCalled))

\* An invocation running after an earlier one failed, Shutdown not called.
C3_Witness == lastOutcome = "err" /\ errLogged /\ loopPc = "action" /\ ~ShutdownCalled

\* C4: an invocation begins only when a full interval has passed since the
\* previous invocation returned.
C4_IdleInterval ==
    [][(inFlight' > inFlight /\ sinceReturn # NoReturn) => sinceReturn >= interval]_vars

\* C5: the ticks that fired during one invocation start at most one invocation.
C5_NoTickBuildUp == \A k \in 1..MaxInvocations : caused[k] <= 1

\* Two ticks fired during invocation k; the one that was kept has started
\* the next invocation, which has returned, and no tick is left.
C5_Witness ==
    \E k \in 1..MaxInvocations :
        /\ firedIn[k] = 2
        /\ caused[k] = 1
        /\ inFlight = 0
        /\ loopPc = "select"
        /\ tickerC = <<>>

\* C6 as claimed: with the shutdown signal and a tick (an event) both ready,
\* the loop does not start the action (does not receive the event).
C6_ShutdownAlwaysWins ==
    [][/\ (loopPc = "select" /\ sdPc = "sending" /\ tickerC # <<>>)
            => inFlight' = inFlight
       /\ (ecPc = "select" /\ ecSdPc = "sending" /\ \E c \in Callers : addPc[c] = "sending")
            => handed' = handed]_vars

\* C6 amended: the select may take either; the loop leaves only at its
\* select, with the started action (persist and dispatch) finished, and the
\* puller starts at most one invocation after Shutdown was called.
C6_ExitOnlyWhenIdle ==
    /\ loopPc \in {"returning", "exited"} => inFlight = 0
    /\ startsAfterStop <= 1
    /\ ecPc \in {"returning", "exited"} =>
            /\ ecCur = 0
            /\ Len(handed) = Len(persisted) + Cardinality(dropped)
            /\ dispatched = persisted

\* The tick that was ready together with the shutdown signal was taken, the
\* invocation ran to its end, and then the loop exited.
C6_Witness == startsAfterStop = 1 /\ loopPc = "exited" /\ sdReturns = 1

\* --- gatherLeaseStats
Fails(app) == getLeaseStatsFromApp(app).err # NoErr
FailedApps == {i \in 1..Len(gApps) : Fails(gApps[i])}
InSeq(x, q) == \E n \in 1..Len(q) : q[n] = x
CallsFor(i) == {n \in 1..Len(gResult.calls) : gResult.calls[n].app = i}
Cycle == gPc = "done" /\ ~gDbErr

\* C7: with a failing target T1 and a succeeding target T2 in one cycle, in
\* either order, T2 is processed and counted, and the error returned is that
\* of a failing target: T1's when T1 is the only one.
C7_PartialFailureIsolation ==
    Cycle =>
        \A i, j \in 1..Len(gApps) :
            (i \in FailedApps /\ j \notin FailedApps) =>
                /\ InSeq(j, gResult.visited)
                /\ (dhcpDaemonsOf(gApps[j].daemons) # {} => CallsFor(j) # {})
                /\ gResult.cnt = Len(gApps) - Cardinality(FailedApps)
                /\ gResult.err # NoErr
                /\ gResult.err.app \in FailedApps
                /\ (FailedApps = {i} => gResult.err = getLeaseStatsFromApp(gApps[i]).err)

\* T1 fails first, T2 succeeds after it with a transport call of its own.
C7_Witness ==
    /\ Cycle
    /\ Len(gApps) = 2
    /\ FailedApps = {1}
    /\ CallsFor(2) # {}
    /\ gResult.cnt = 1

\* C8: a target that lists neither dhcp4 nor dhcp6 is skipped: no transport
\* call is made for it and no error is recorded for it.
C8_SkipWithoutDhcpDaemon ==
    Cycle =>
        \A i \in 1..Len(gApps) :
            gApps[i].daemons \cap {"dhcp4", "dhcp6"} = {} =>
                /\ CallsFor(i) = {}
                /\ i \notin FailedApps
                /\ gResult.err.app # i
                /\ gResult.cnt >= 1

\* Two targets; the one without a dhcp daemon sits behind an unreachable
\* agent and is skipped, the other one is asked.
C8_Witness ==
    /\ Cycle
    /\ Len(gApps) = 2
    /\ gApps[1].daemons = {"ca"}
    /\ gApps[1].transport = "err"
    /\ CallsFor(2) # {}
    /\ gResult.cnt = 2

CommandsOf(call) == {call.cmds[n].command : n \in 1..Len(call.cmds)}

\* C9: every batch holds stat-lease4-get exactly when the target lists dhcp4
\* and stat-lease6-get exactly when it lists dhcp6.
C9_BatchTailored ==
    Cycle =>
        \A n \in 1..Len(gResult.calls) :
            LET call == gResult.calls[n]
                daemons == gApps[call.app].daemons
            IN  /\ "stat-lease4-get" \in CommandsOf(call) <=> "dhcp4" \in daemons
                /\ "stat-lease6-get" \in CommandsOf(call) <=> "dhcp6" \in daemons

\* C10: every batch handed to the transport holds at least one command.
C10_BatchNonEmpty ==
    Cycle => \A n \in 1..Len(gResult.calls) : Len(gResult.calls[n].cmds) > 0


\* -------------------------------------------------- the transport call
AppCalled == aPc # "ready" /\ aResult.calls # <<>>
AppCall == aResult.calls[1]

\* C11: in every call to the transport, as many response slots are passed as
\* commands are submitted.
C11_SlotsMatchCommands ==
    AppCalled => Len(AppCall.slots) = Len(AppCall.cmds)

\* C12: in every batch of at least one command, the response slot at the
\* position of a command is the one typed for that command.
C12_PositionalCorrelation ==
    AppCalled /\ Len(AppCall.cmds) >= 1 =>
        \A n \in 1..Len(AppCall.cmds) :
            /\ n <= Len(AppCall.slots)
            /\ AppCall.slots[n] = slotFor(AppCall.cmds[n].command)

C12_Witness ==
    /\ aPc = "done"
    /\ AppCalled
    /\ CommandsOf(AppCall) = {"stat-lease4-get", "stat-lease6-get"}
    /\ aResult.logged4 # {}
    /\ aResult.logged6 # {}

\* C13: a target whose transport fails gets one call and one error, none of
\* its responses is processed, and the cycle goes on to the next target; the
\* error the cycle returns is that of its last failing target.
C13_TransportFailureFailsBatch ==
    gPc # "ready" /\ ~gDbErr =>
        /\ \A i \in 1..Len(gResult.visited) :
               Fails(gApps[i]) =>
                   /\ gResult.logged[i] = [r4 |-> {}, r6 |-> {}]
                   /\ Cardinality(CallsFor(i)) = 1
                   /\ i < Len(gApps) => Len(gResult.visited) >= i + 1
        /\ gPc = "done" /\ FailedApps # {} =>
               LET last == CHOOSE i \in FailedApps : \A j \in FailedApps : j <= i
               IN  gResult.err = getLeaseStatsFromApp(gApps[last]).err

C13_Witness ==
    /\ gPc = "done"
    /\ ~gDbErr
    /\ Len(gApps) = 2
    /\ gApps[1].daemons = {"dhcp4"}
    /\ gApps[1].transport = "err"
    /\ gApps[2].transport = "ok"
    /\ gResult.logged[2].r4 # {}
    /\ gResult.err = [kind |-> "transport", app |-> 1]

\* The rows of a response that hold as many values as there are columns.
matchingRows(rs) == {n \in 1..Len(rs.rows) : rs.rows[n] = rs.ncols}

\* C14: a row whose number of values differs from the number of columns is
\* skipped and nothing crashes: of every response received, exactly the rows
\* that match the columns are processed.
C14_MismatchedRowSkipped ==
    AppCalled /\ aApp.transport = "ok" /\ Len(AppCall.cmds) = 2 =>
        /\ aPc # "crashed"
        /\ aResult.logged4 = matchingRows(aApp.rs4)
        /\ aResult.logged6 = matchingRows(aApp.rs6)

\* ------------------------------------------------- the event center
Pos(x, q) == CHOOSE n \in 1..Len(q) : q[n] = x
NoDup(q) == \A m, n \in 1..Len(q) : q[m] = q[n] => m = n

\* The elements of q are elements of h, in the order they have in h.
InOrderOf(q, h) ==
    LET kept(x) == x \in Range(q)
    IN  q = SelectSeq(h, kept)

\* C15: one writer task, and at most one call of dbmodel.AddEvent in
\* progress at any time, whatever the callers of AddEvent do.
C15_OneWriter ==
    /\ ecWg <= 1
    /\ persisting <= 1
    /\ persisting = 1 <=> ecPc = "persist"

C15_Witness ==
    /\ persisting = 1
    /\ \A c \in Callers : addPc[c] = "sending"

\* C16, as stated: a caller of AddEvent never waits for the writer task; its
\* call can return whenever it is in progress.
C16_NonBlocking ==
    \A c \in Callers : addPc[c] = "sending" => ecPc = "select"

\* C16, amended: AddEvent returns exactly when the writer task receives the
\* event in its select, so every event whose AddEvent returned has been
\* received, and the call returns while its event is yet to be stored.
C16_SynchronousHandOff ==
    /\ [](addReturned \subseteq Range(handed))
    /\ [][\A c \in Callers :
            addPc[c] = "sending" /\ addPc'[c] = "idle" =>
                /\ ecPc = "select"
                /\ ecPc' = "persist"
                /\ ecCur' = addEv[c]
                /\ addEv[c] \notin Range(persisted') \cup dropped']_vars

C16_Witness ==
    /\ ecPc \in {"persist", "dispatch"}
    /\ addReturned # {}
    /\ \E c \in Callers : addPc[c] = "sending"

\* C17: the events are stored in the order the writer task received them, and
\* passed to the broker in the order they were stored; an event whose AddEvent
\* returned before another's was called is received before it.
C17_Fifo ==
    /\ NoDup(handed)
    /\ InOrderOf(persisted, handed)
    /\ InOrderOf(dispatched, persisted)
    /\ Range(persisted) =
           Range(handed) \ (dropped \cup (IF ecPc = "persist" THEN {ecCur} ELSE {}))
    /\ Range(dispatched) =
           Range(persisted) \ (IF ecPc = "dispatch" THEN {ecCur} ELSE {})
    /\ \A e \in Range(handed) : \A d \in before[e] :
           Pos(d, handed) < Pos(e, handed)

C17_Witness ==
    /\ Len(dispatched) >= 2
    /\ dispatched[1] > dispatched[2]
    /\ \E e \in Range(dispatched) : before[e] # {}

\* C18: once Shutdown has returned, the writer task has exited, and from then
\* on no event is received, stored or passed to the broker.
C18_ShutdownAfterWriterExit ==
    /\ [](ecSdReturns > 0 => ecPc = "exited" /\ ecWg = 0 /\ persisting = 0)
    /\ [][ecSdReturns > 0 =>
            /\ handed' = handed
            /\ persisting' = persisting
            /\ persisted' = persisted
            /\ dropped' = dropped
            /\ dispatched' = dispatched]_vars

C18_Witness ==
    /\ ecSdReturns > 0
    /\ dispatched # <<>>
    /\ \E c \in Callers : addPc[c] = "sending"

\* C19: when Shutdown has returned, every event whose AddEvent had returned
\* when Shutdown was called has been stored, or its failure logged.
C19_NoEventLostInShutdown ==
    ecSdReturns > 0 => sdSnapshot \subseteq Range(persisted) \cup dropped

C19_Witness ==
    /\ ecSdReturns > 0
    /\ ecSdPc = "idle"
    /\ sdSnapshot # {}
    /\ sdSnapshot \cap dropped # {}
    /\ sdSnapshot \cap Range(persisted) # {}

\* C20: an event that could not be stored is not passed to the broker and not
\* stored later, the loop goes back to its select, and every event received,
\* before or after, ends stored and dispatched or logged as failed.
C20_FailureDropsOnlyThatEvent ==
    /\ [](/\ dropped \cap Range(dispatched) = {}
          /\ dropped \cap Range(persisted) = {}
          /\ NoDup(handed))
    /\ [][dropped' # dropped => ecPc' = "select" /\ dispatched' = dispatched]_vars
    /\ \A e \in 1..MaxEvents :
           InSeq(e, handed) ~> (e \in dropped \/ InSeq(e, dispatched))

C20_Witness ==
    \E e1 \in dropped : \E e2 \in Range(dispatched) :
        Pos(e1, handed) < Pos(e2, handed)

\* q is the sequence p, or p without its last element.
IsPrefix(q, p) == Len(q) <= Len(p) /\ \A n \in 1..Len(q) : q[n] = p[n]

\* C21: DispatchEvent is called once for every stored event, in the order of
\* storing, and only once the event has been stored: the calls made are the
\* stored events up to the one in hand, and every stored event is dispatched.
C21_DispatchOncePerPersisted ==
    /\ [](/\ NoDup(dispatched)
          /\ IsPrefix(dispatched, persisted)
          /\ Len(persisted) - Len(dispatched) = (IF ecPc = "dispatch" THEN 1 ELSE 0))
    /\ [][dispatched' # dispatched =>
            /\ ecPc = "dispatch"
            /\ dispatched' = Append(dispatched, ecCur)
            /\ persisted[Len(persisted)] = ecCur
            /\ InSeq(ecCur, handed)]_vars
    /\ \A e \in 1..MaxEvents : InSeq(e, persisted) ~> InSeq(e, dispatched)

C21_Witness ==
    /\ Len(dispatched) >= 1
    /\ dropped # {}
    /\ ecPc = "dispatch"

\* ------------------------------------------------------------ the broker
\* C22: a subscriber is handed only events dispatched after it registered;
\* before it registers it is handed nothing.
C22_LateSubscriberIsolation ==
    \A s \in Subscribers :
        /\ subPc[s] = "new" => received[s] = <<>> /\ missed[s] = {}
        /\ \A e \in Range(received[s]) \cup missed[s] :
               InSeq(e, dispatched) /\ Pos(e, dispatched) > regAt[s]

C22_Witness ==
    \E s \in Subscribers :
        /\ regAt[s] >= 1
        /\ received[s] # <<>>

\* C23: the writer task can always complete a dispatch, whatever the
\* subscribers are doing; a dispatch hands the event to every subscriber that
\* is waiting, and drops it for those still writing and for no one else.
C23_NonBlockingDispatch ==
    /\ [](ecPc = "dispatch" => ENABLED mainLoopDispatch)
    /\ [][dispatched' # dispatched =>
            \A s \in Subscribers :
                /\ subPc[s] = "ready" =>
                       received'[s] = Append(received[s], ecCur) /\ missed'[s] = missed[s]
                /\ subPc[s] = "busy" =>
                       received'[s] = received[s] /\ missed'[s] = missed[s] \cup {ecCur}
                /\ subPc[s] \in {"new", "gone"} =>
                       received'[s] = received[s] /\ missed'[s] = missed[s]]_vars

C23_Witness ==
    \E s, t \in Subscribers :
        /\ subPc[s] = "busy"
        /\ \E e \in missed[s] : InSeq(e, received[t])
        /\ ecPc = "select"

\* ---------------------------------------------------------- tag enrichment
Recognized(obj) == obj.type \in {"Daemon", "App", "Machine", "Subnet"}
KindOf(obj) ==
    IF obj.type = "Daemon" THEN "daemon"
    ELSE IF obj.type = "App" THEN "app"
    ELSE IF obj.type = "Machine" THEN "machine"
    ELSE "subnet"
TagOf(obj) ==
    IF obj.type = "Daemon" THEN daemonTag(obj)
    ELSE IF obj.type = "App" THEN appTag(obj)
    ELSE IF obj.type = "Machine" THEN machineTag(obj)
    ELSE subnetTag(obj)
OfKind(objects, kind) ==
    {n \in 1..Len(objects) : Recognized(objects[n]) /\ KindOf(objects[n]) = kind}
FirstOf(S) == CHOOSE n \in S : \A m \in S : n <= m
LastOf(S) == CHOOSE n \in S : \A m \in S : m <= n
Created == cPc = "done"

\* C24: with one object of a recognized kind, every placeholder of that kind
\* in the text is replaced by the object's tag, which carries its id (and a
\* machine's address), nothing else in the text changes, the relation set
\* records the object's id for its kind only, and the level is the wrapper's.
C24_TagEnrichment ==
    Created /\ Len(cIn.objects) = 1 /\ Recognized(cIn.objects[1]) =>
        LET obj == cIn.objects[1]
            kind == KindOf(obj)
        IN  /\ Len(cOut.text) = Len(cIn.text)
            /\ \A n \in 1..Len(cIn.text) :
                   cOut.text[n] = IF cIn.text[n] = Placeholder(kind) THEN TagOf(obj)
                                  ELSE cIn.text[n]
            /\ TagOf(obj).tag = kind
            /\ TagOf(obj).id = obj.id
            /\ kind = "machine" => TagOf(obj).address = obj.address
            /\ cOut.relations = [k \in Kinds |-> IF k = kind THEN obj.id ELSE 0]
            /\ cIn.wrapper = "AddInfoEvent" => cOut.level = "EvInfo"
            /\ cIn.wrapper = "AddWarnEvent" => cOut.level = "EvWarn"
            /\ cIn.wrapper = "AddErroEvent" => cOut.level = "EvErro"

C24_Witness ==
    /\ Created
    /\ cIn.wrapper = "AddWarnEvent"
    /\ Len(cIn.objects) = 1
    /\ cIn.objects[1].type = "Machine"
    /\ cIn.objects[1].id = 5
    /\ cIn.text = <<Placeholder("machine"), Placeholder("machine")>>
    /\ cOut.text[1 + 1].address = "10.0.0.1"
    /\ cOut.relations["machine"] = 5

\* C25, as stated: with several objects of one kind, the placeholders of the
\* kind hold the tag of the last of them.
C25_LastWins ==
    Created =>
        \A kind \in Kinds :
            Cardinality(OfKind(cIn.objects, kind)) >= 2 =>
                \A n \in 1..Len(cIn.text) :
                    cIn.text[n] = Placeholder(kind) =>
                        cOut.text[n] = TagOf(cIn.objects[LastOf(OfKind(cIn.objects, kind))])

\* C25, amended: with one or several objects of one kind, the placeholders of
\* the kind hold the tag of the first of them, and the relation set records
\* the id of the last.
C25_FirstTagLastRelation ==
    Created =>
        \A kind \in Kinds :
            OfKind(cIn.objects, kind) # {} =>
                /\ \A n \in 1..Len(cIn.text) :
                       cIn.text[n] = Placeholder(kind) =>
                           cOut.text[n] =
                               TagOf(cIn.objects[FirstOf(OfKind(cIn.objects, kind))])
                /\ cOut.relations[kind] =
                       cIn.objects[LastOf(OfKind(cIn.objects, kind))].id

C25_Witness ==
    /\ Created
    /\ Len(cIn.objects) = 2
    /\ cIn.objects[1].type = "Machine"
    /\ cIn.objects[2].type = "Machine"
    /\ cIn.objects[1].id = 5
    /\ cIn.objects[2].id = 7
    /\ Len(cIn.text) >= 1
    /\ cIn.text[1] = Placeholder("machine")
    /\ cOut.text[1].id = 5
    /\ cOut.relations["machine"] = 7

\* C26: objects of an unrecognized type change nothing: the event is the one
\* created from the same list without them, and with no other object the
\* text is the text passed and no relation is recorded.
C26_UnrecognizedIgnored ==
    Created /\ (\E n \in 1..Len(cIn.objects) : ~Recognized(cIn.objects[n])) =>
        /\ cOut = CreateEvent(levelOf(cIn.wrapper), cIn.text,
                              SelectSeq(cIn.objects, Recognized))
        /\ (\A n \in 1..Len(cIn.objects) : ~Recognized(cIn.objects[n])) =>
               cOut.text = cIn.text /\ cOut.relations = NoRelations

C26_Witness ==
    /\ Created
    /\ Len(cIn.objects) = 2
    /\ ~Recognized(cIn.objects[1])
    /\ cIn.objects[2].type = "Subnet"
    /\ Len(cIn.text) >= 1
    /\ cIn.text[1] = Placeholder("subnet")
    /\ cOut.text[1] = subnetTag(cIn.objects[2])

\* ------------------------------------------------------------ lease search
Searched == cPc = "done" /\ ~cIn.text.isNil /\ TrimSpace(cIn.text.chars) # <<>>
RECURSIVE leaseCount(_, _)
leaseCount(apps, i) ==
    IF i > Len(apps) THEN 0
    ELSE (IF apps[i].ok THEN Len(apps[i].leases) ELSE 0) + leaseCount(apps, i + 1)

\* C27: a search without a database error answers OK with the leases of the
\* servers that answered and no others, Total the number of items, and the
\* servers that erred; the error response is given for a database error only.
C27_PartialLeaseSearch ==
    /\ cPc = "done" /\ cOut.status # "OK" => cIn.dbErr
    /\ Searched /\ cIn.dbErr => cOut.status = "InternalServerError"
    /\ Searched /\ ~cIn.dbErr =>
        /\ cOut.status = "OK"
        /\ cOut.total = Len(cOut.items)
        /\ cOut.total = leaseCount(cIn.apps, 1)
        /\ \A i \in 1..Len(cIn.apps) : cIn.apps[i].ok =>
               \A n \in 1..Len(cIn.apps[i].leases) :
                   \E m \in 1..Len(cOut.items) :
                       /\ cOut.items[m].appId = i
                       /\ cOut.items[m].ipAddress = cIn.apps[i].leases[n].ip
        /\ \A m \in 1..Len(cOut.items) : cIn.apps[cOut.items[m].appId].ok
        /\ Range(cOut.erredApps) = {i \in 1..Len(cIn.apps) : ~cIn.apps[i].ok}
        /\ Len(cOut.erredApps) = Cardinality(Range(cOut.erredApps))

C27_Witness ==
    /\ Searched
    /\ cOut.status = "OK"
    /\ Len(cIn.apps) = 2
    /\ ~cIn.apps[1].ok
    /\ cIn.apps[1].leases # <<>>
    /\ cOut.erredApps = <<1>>
    /\ cOut.total = 2

\* ---------------------------------------------------------------- settings
DefaultNames == {defaultSettings[i].name : i \in 1..Len(defaultSettings)}
DefaultOf(name) ==
    LET d == defaultSettings[CHOOSE i \in 1..Len(defaultSettings) :
                                 defaultSettings[i].name = name]
    IN  Row(d.valType, d.value)

\* C28: InitializeSettings leaves every row that exists as it is; when it
\* returns no error every default that was missing is stored with its default
\* type and value and nothing else is added; and run again after a run
\* without error it changes nothing.
C28_InitializeSettings ==
    /\ [](sLast.op = "InitializeSettings" =>
            /\ \A n \in SettingNames :
                   sLast.before[n].present => settings[n] = sLast.before[n]
            /\ \A n \in SettingNames \ DefaultNames : settings[n] = sLast.before[n]
            /\ sLast.err = "nil" =>
                   \A n \in DefaultNames :
                       /\ settings[n].present
                       /\ ~sLast.before[n].present => settings[n] = DefaultOf(n)
            /\ sLast.err # "nil" => settings = sLast.before)
    /\ [][sLast.op = "InitializeSettings" /\ sLast.err = "nil"
              /\ sLast'.op = "InitializeSettings" => settings' = settings]_vars

C28_Witness ==
    /\ sLast.op = "InitializeSettings"
    /\ sLast.err = "nil"
    /\ ~sLast.before["kea_stats_puller_interval"].present
    /\ sLast.before["other"].present
    /\ settings["kea_stats_puller_interval"].value = "60"

\* C30: a typed Get or Set returns an error when the setting is missing or
\* stored under another type; a Get and a failing Set leave the table as it
\* was; a Set without error changes the value of the named row and nothing
\* else.
C30_TypedAccessors ==
    sLast.op \in {"Get", "Set"} =>
        LET row == sLast.before[sLast.name]
        IN  /\ ~row.present \/ row.valType # sLast.valType => sLast.err # "nil"
            /\ sLast.op = "Get" \/ sLast.err # "nil" => settings = sLast.before
            /\ sLast.op = "Set" /\ sLast.err = "nil" =>
                   /\ settings[sLast.name].present
                   /\ settings[sLast.name].valType = row.valType
                   /\ \A n \in SettingNames \ {sLast.name} : settings[n] = sLast.before[n]

C30_Witness ==
    /\ sLast.op = "Set"
    /\ sLast.err = "nil"
    /\ sLast.valType = SettingValTypeInt
    /\ settings[sLast.name].value = "0"
    /\ sLast.before[sLast.name].value = "abc"

\* ----------------------------------------------------------------- subnets
Satisfies(sn, params) ==
    /\ params.appId # 0 => sn.appId = params.appId
    /\ params.dhcpVersion # 0 => sn.family = params.dhcpVersion
    /\ params.text # "" => params.text \in sn.texts

C31_SecondShutdownNeverReturns ==
    /\ [](sdReturns <= 1 /\ ecSdReturns <= 1)
    /\ [][loopPc = "exited" /\ sdPc = "sending"
            => loopPc' = "exited" /\ sdPc' = "sending" /\ sdReturns' = sdReturns]_vars
    /\ [][ecPc = "exited" /\ ecSdPc = "sending"
            => ecPc' = "exited" /\ ecSdPc' = "sending" /\ ecSdReturns' = ecSdReturns]_vars

C31_Witness == sdReturns = 1 /\ sdPc = "sending" /\ loopPc = "exited" /\ wg = 0

\* ------------------------------------------------ AddEvent without a writer
WriterGone == ecPc \in {"returning", "exited"}
Stranded(c) == addPc[c] = "sending" /\ WriterGone

\* C32: an AddEvent call returns only by handing its event to the running
\* writer.  A call that is at its send when the writer has taken the
\* shutdown signal, or that starts after that, stays at its send for ever,
\* and its event is never received, stored or dispatched.
C32_AddEventBlocksWithoutWriter ==
    /\ [](addReturned \subseteq Range(handed))
    /\ [](\A c \in Callers : Stranded(c) =>
            /\ addEv[c] \notin addReturned
            /\ ~InSeq(addEv[c], handed)
            /\ ~InSeq(addEv[c], persisted)
            /\ ~InSeq(addEv[c], dispatched))
    /\ [][\A c \in Callers : Stranded(c) =>
            /\ WriterGone'
            /\ addPc'[c] = "sending"
            /\ addEv'[c] = addEv[c]]_vars

C32_Witness ==
    /\ ecPc = "exited"
    /\ ecSdReturns = 1
    /\ \A c \in Callers : addPc[c] = "sending"
    /\ Len(persisted) >= 1

\* --------------------------------------------------------- the server
\* The loop goroutine of the stats puller exists and has not exited.
StatsPullerRunning == loopPc \in {"select", "action", "returning"}

\* C33: when StorkServer.Shutdown has returned, neither the stats puller nor
\* the hosts puller that NewStorkServer started is still running.
C33_PullersStoppedAfterShutdown ==
    ssPc = "down" => ~StatsPullerRunning /\ ssHosts # "running"

\* C34: when NewStorkServer has returned an error, nothing it had started is
\* left up: the agents are shut down, the database is closed, and neither
\* puller is running.
C34_FailedStartReleasesAll ==
    ssPc = "failed" =>
        /\ ssAgents # "up"
        /\ ssDb # "open"
        /\ ~StatsPullerRunning
        /\ ssHosts # "running"

InShutdown == ssPc \in {"sdStats", "sdAgents", "down"}

\* C35: in StorkServer.Shutdown the database is closed and the agents are
\* shut down only when StatsPuller.Shutdown has returned and the loop has
\* exited, and no collection cycle is in flight or starts after that.
C35_StatsPullerStoppedFirst ==
    /\ [](InShutdown /\ (ssDb = "closed" \/ ssAgents = "down") =>
            /\ sdReturns = 1
            /\ loopPc = "exited"
            /\ inFlight = 0)
    /\ [][InShutdown /\ ssDb = "closed" => inFlight' = 0 /\ loopPc' = "exited"]_vars

C35_Witness ==
    /\ ssPc = "down"
    /\ ssDb = "closed"
    /\ ssAgents = "down"
    /\ calledInFlight
    /\ nStarted >= 1
    /\ loopPc = "exited"

\* ------------------------------------------------- the account of a cycle
Ran == gPc # "ready"
Positions(q) == [n \in 1..Len(q) |-> n]

\* C36: in every cycle each target listed is attempted exactly once, and the
\* count returned is the number of targets whose collection gave no error,
\* those without a dhcp daemon among them; count and failed targets add up
\* to the number of targets.
C36_EachTargetOnceAndCounted ==
    Ran /\ ~gDbErr =>
        /\ gResult.visited = Positions(gApps)
        /\ gPc = "done"
        /\ gResult.cnt = Cardinality({i \in 1..Len(gApps) : ~Fails(gApps[i])})
        /\ gResult.cnt + Cardinality(FailedApps) = Len(gApps)
        /\ \A i \in 1..Len(gApps) : dhcpDaemonsOf(gApps[i].daemons) = {} => ~Fails(gApps[i])

\* C37: the error a cycle returns is nil exactly when no target failed, and
\* otherwise that of the last failing target, whatever follows it.
C37_LastErrorReturned ==
    Cycle =>
        /\ gResult.err = NoErr <=> FailedApps = {}
        /\ FailedApps # {} =>
               gResult.err = getLeaseStatsFromApp(gApps[LastOf(FailedApps)]).err

\* Two failing targets with errors of two kinds: the second one's is returned.
C37_Witness ==
    /\ Cycle
    /\ FailedApps = {1, 1 + 1}
    /\ gApps[1].transport = "err"
    /\ gApps[1 + 1].transport = "cmdErr"
    /\ gResult.err = [kind |-> "command", app |-> 1 + 1]

\* C39: when listing the targets fails the cycle returns a count of 0 and
\* that error, and no target is attempted nor asked over the transport.
C39_ListingFailure ==
    Ran /\ gDbErr =>
        /\ gPc = "done"
        /\ gResult.cnt = 0
        /\ gResult.err = DbErr
        /\ gResult.visited = <<>>
        /\ gResult.calls = <<>>

\* The listing fails while the database holds a target that would be asked.
C39_Witness ==
    /\ gPc = "done"
    /\ gDbErr
    /\ Len(gApps) >= 1
    /\ "dhcp4" \in gApps[1].daemons
    /\ gResult.err = DbErr

\* ------------------------------------------------ text and relations agree
\* C38: in every event created, each tag substituted in the text carries the
\* id the relation set records for the tag's kind, also with several objects
\* of one kind.
C38_TextAgreesWithRelations ==
    Created =>
        \A n \in 1..Len(cOut.text) :
            cOut.text[n].tag \in Kinds =>
                cOut.relations[cOut.text[n].tag] = cOut.text[n].id

=========================================================================
